---- MODULE Spec2Model ----
(***************************************************************************)
(* The inbound orchestrator of skills/crm-inbound-orchestrator             *)
(* (scripts/process-inbound.ts): one run of main() over a poll batch,      *)
(* request by request, against the six PostgREST tables it writes.         *)
(*                                                                         *)
(* Conventions.  A JavaScript string that may be undefined is a TLA+       *)
(* string with "" for undefined; an identifier returned by the store is a  *)
(* positive integer with 0 for undefined; a timestamp string is a record   *)
(* [inst, zone] (the instant it denotes and the way it is written) with    *)
(* NoTs for undefined.  A piece of text is the set of phrases it is made   *)
(* of; String.includes is Includes below.                                  *)
(***************************************************************************)
EXTENDS Integers, Sequences, FiniteSets, TLC

\* ------------------------------------------------------------------ bounds

\* the number of runs of main() in one behaviour of Spec
MaxRuns == 2
\* the longest poll batch of Spec and of SpecConc
MaxLen == 2
\* the number of runs of main() in one behaviour of SpecConc
MaxRunsConc == 2
\* the longest poll batch of SpecBatch (one run)
MaxLenBatch == 3
\* the number of requests that may fail in one behaviour
MaxFaults == 1
\* the number of external approval actions in one behaviour
MaxApprovals == 1

\* ------------------------------------------------------------ timestamps

NoTs == [inst |-> 0, zone |-> "none"]

\* an ISO string of instant i, written with a "Z" or with a numeric offset
Ts(i, z) == [inst |-> i, zone |-> z]

\* Date.parse of a timestamp string: the instant, whatever the notation
DateParse(ts) == ts.inst

\* new Date(ms).toISOString(): the instant in "Z" notation
toISOString(ms) == Ts(ms, "Z")

\* ------------------------------------------------------------ the senders

\* the raw From headers of the sample messages
FromStrings ==
  { "Jane Doe <jane@acmeco.com>", "billing@vendor.com", "jobalerts@linkedin.com",
    "Sam Lee", "no-reply@saas.io", "" }

\* /<([^>]+)>/ first, else the first bare address; lower-cased
extractEmailAddress(rawFrom) ==
  CASE rawFrom = "Jane Doe <jane@acmeco.com>" -> "jane@acmeco.com"
    [] rawFrom = "billing@vendor.com" -> "billing@vendor.com"
    [] rawFrom = "jobalerts@linkedin.com" -> "jobalerts@linkedin.com"
    [] rawFrom = "no-reply@saas.io" -> "no-reply@saas.io"
    [] OTHER -> ""

\* the header with every <...> and every double quote removed, trimmed
extractDisplayName(rawFrom) ==
  CASE rawFrom = "Jane Doe <jane@acmeco.com>" -> "Jane Doe"
    [] OTHER -> rawFrom

\* email.split("@")[1]
extractEmailDomain(email) ==
  CASE email = "jane@acmeco.com" -> "acmeco.com"
    [] email = "billing@vendor.com" -> "vendor.com"
    [] email = "jobalerts@linkedin.com" -> "linkedin.com"
    [] email = "no-reply@saas.io" -> "saas.io"
    [] OTHER -> ""

\* email.split("@")[0]
LocalPart(email) ==
  CASE email = "jane@acmeco.com" -> "jane"
    [] email = "billing@vendor.com" -> "billing"
    [] email = "jobalerts@linkedin.com" -> "jobalerts"
    [] email = "no-reply@saas.io" -> "no-reply"
    [] OTHER -> ""

\* ------------------------------------------------------------- the lexicons

directInquirySignals ==
  { "i'm interested", "i am interested", "we are interested", "sponsorship inquiry",
    "consulting", "consultation", "advisor", "advisory", "fractional", "retainer",
    "can we", "could we", "book a call", "request a quote", "proposal", "pricing",
    "need help", "looking for" }

automatedSenderSignals ==
  { "no-reply", "noreply", "do-not-reply", "notifications", "digest", "newsletter",
    "jobalerts" }

automatedTextSignals ==
  { "job alert", "jobs you may be interested", "recommended jobs", "linkedin jobs",
    "daily digest", "weekly digest", "unsubscribe", "manage preferences" }

hiringSignals ==
  { "hiring", "job opening", "apply now", "application", "recruiter",
    "career opportunity", "open role", "resume" }

vendorSystemDomains ==
  { "linkedin.com", "indeed.com", "glassdoor.com", "ziprecruiter.com", "monster.com",
    "mail.linkedin.com", "mailchimp.com", "sendgrid.net", "stripe.com", "paypal.com",
    "quickbooks.com", "intuit.com" }

jobNetworkDomains ==
  { "linkedin.com", "indeed.com", "glassdoor.com", "ziprecruiter.com", "monster.com" }

receiptSignals ==
  { "invoice", "receipt", "payment", "charged", "charge", "order #",
    "order confirmation", "billing", "subscription", "tax invoice" }

salesSignals ==
  { "sponsorship", "partnership", "proposal", "quote", "pricing", "demo", "interested",
    "book a call", "campaign", "collaboration" }

supportSignals == { "support", "help", "issue", "error", "problem", "unable", "bug" }

ignoreSignals ==
  { "unsubscribe", "newsletter", "promo", "promotion", "digest", "marketing update" }

\* <<s, t>>: the signal s is a proper substring of the phrase t (t a signal, or a
\* lower-cased From header or local-part of FromStrings)
SubstringPairs ==
  { <<"interested", "i'm interested">>, <<"interested", "i am interested">>,
    <<"interested", "we are interested">>, <<"interested", "jobs you may be interested">>,
    <<"sponsorship", "sponsorship inquiry">>, <<"advisor", "advisory">>,
    <<"quote", "request a quote">>, <<"help", "need help">>,
    <<"digest", "daily digest">>, <<"digest", "weekly digest">>,
    <<"charge", "charged">>, <<"invoice", "tax invoice">>, <<"promo", "promotion">>,
    <<"billing", "billing@vendor.com">>, <<"jobalerts", "jobalerts@linkedin.com">>,
    <<"no-reply", "no-reply@saas.io">> }

\* text.includes(signal), text a set of phrases
Includes(text, signal) ==
  \E phrase \in text : phrase = signal \/ <<signal, phrase>> \in SubstringPairs

includesAny(text, signals) == \E signal \in signals : Includes(text, signal)

\* String.toLowerCase of a From header
toLowerCase(rawFrom) ==
  CASE rawFrom = "Jane Doe <jane@acmeco.com>" -> "jane doe <jane@acmeco.com>"
    [] rawFrom = "Sam Lee" -> "sam lee"
    [] OTHER -> rawFrom

\* `${subject} ${snippet} ${from}`.toLowerCase()
TextOf(message) == message.subject \cup message.snippet \cup {toLowerCase(message.from)}

countSignals(text, signals) == Cardinality({s \in signals : Includes(text, s)})

Min(a, b) == IF a <= b THEN a ELSE b

\* hasDirectInquiry: the text holds a direct-inquiry phrase
HasDirectInquiry(message) == includesAny(TextOf(message), directInquirySignals)

\* looksAutomated: an automated-sender signal in the local part of the sender or in
\* the text, or an automated-text signal in the text
LooksAutomated(message) ==
  \/ includesAny({LocalPart(extractEmailAddress(message.from))}, automatedSenderSignals)
  \/ includesAny(TextOf(message), automatedTextSignals)
  \/ includesAny(TextOf(message), automatedSenderSignals)

\* looksHiring: a hiring signal in the text
LooksHiring(message) == includesAny(TextOf(message), hiringSignals)

\* likelyNonHumanSender: automated, or of a job-network or vendor-system domain
LikelyNonHumanSender(message) ==
  \/ LooksAutomated(message)
  \/ extractEmailDomain(extractEmailAddress(message.from)) \in jobNetworkDomains
  \/ extractEmailDomain(extractEmailAddress(message.from)) \in vendorSystemDomains

\* receiptScore, salesScore: the receipt and the sales signals in the text
ReceiptScore(message) == countSignals(TextOf(message), receiptSignals)
SalesScore(message) == countSignals(TextOf(message), salesSignals)

\* supportScore, ignoreScore: the support and the ignore signals in the text
SupportScore(message) == countSignals(TextOf(message), supportSignals)
IgnoreScore(message) == countSignals(TextOf(message), ignoreSignals)

\* the answers of the rules of the classifier, for the faulty classifiers below
GateAnswer ==
  [label |-> "ignore", confidence |-> 94, reasons |-> <<"non-business-automation-filter">>]

ReceiptAnswer(message) ==
  [label |-> "receipt", confidence |-> Min(65 + ReceiptScore(message) * 8, 96),
   reasons |-> <<"matched-receipt-signals">>]

SalesAnswer(message) ==
  [label |-> "sales", confidence |-> Min(62 + SalesScore(message) * 7, 95),
   reasons |-> <<"matched-sales-signals">>]

SalesRule(message) ==
  IF ~HasDirectInquiry(message) \/ LikelyNonHumanSender(message) \/ LooksHiring(message)
    THEN [label |-> "ignore", confidence |-> 90,
          reasons |-> <<"sales-needs-human-direct-inquiry">>]
    ELSE SalesAnswer(message)

LaterRules(message) ==
  LET supportScore == countSignals(TextOf(message), supportSignals)
      ignoreScore == countSignals(TextOf(message), ignoreSignals)
  IN  IF supportScore > 0
        THEN [label |-> "support", confidence |-> Min(58 + supportScore * 8, 90),
              reasons |-> <<"matched-support-signals">>]
      ELSE IF ignoreScore > 0
        THEN [label |-> "ignore", confidence |-> Min(60 + ignoreScore * 8, 92),
              reasons |-> <<"matched-ignore-signals">>]
      ELSE [label |-> "ignore", confidence |-> 52, reasons |-> <<"no-strong-signal">>]

\* a faulty classifier: the keyword rules with no gate before them
classifyWithoutGate(message) ==
  IF ReceiptScore(message) > 0 /\ ReceiptScore(message) >= SalesScore(message)
    THEN ReceiptAnswer(message)
  ELSE IF SalesScore(message) > 0 THEN SalesRule(message)
  ELSE LaterRules(message)

\* a faulty classifier: the sales rule tried before the receipt rule
classifySalesFirst(message) ==
  IF (LikelyNonHumanSender(message) \/ LooksHiring(message)) /\ ~HasDirectInquiry(message)
    THEN GateAnswer
  ELSE IF SalesScore(message) > 0 THEN SalesRule(message)
  ELSE IF ReceiptScore(message) > 0 THEN ReceiptAnswer(message)
  ELSE LaterRules(message)

\* a faulty classifier: a sales keyword is enough for the label sales
classifySalesByKeywords(message) ==
  IF (LikelyNonHumanSender(message) \/ LooksHiring(message)) /\ ~HasDirectInquiry(message)
    THEN GateAnswer
  ELSE IF ReceiptScore(message) > 0 /\ ReceiptScore(message) >= SalesScore(message)
    THEN ReceiptAnswer(message)
  ELSE IF SalesScore(message) > 0 THEN SalesAnswer(message)
  ELSE LaterRules(message)

\* a faulty classifier: the ignore lexicon tried before the support lexicon
classifyIgnoreBeforeSupport(message) ==
  IF (LikelyNonHumanSender(message) \/ LooksHiring(message)) /\ ~HasDirectInquiry(message)
    THEN GateAnswer
  ELSE IF ReceiptScore(message) > 0 /\ ReceiptScore(message) >= SalesScore(message)
    THEN ReceiptAnswer(message)
  ELSE IF SalesScore(message) > 0 THEN SalesRule(message)
  ELSE IF IgnoreScore(message) > 0
    THEN [label |-> "ignore", confidence |-> Min(60 + IgnoreScore(message) * 8, 92),
          reasons |-> <<"matched-ignore-signals">>]
  ELSE LaterRules(message)

\* a faulty classifier: the confidence of a receipt grows with the score, uncapped
classifyUncapped(message) ==
  IF (LikelyNonHumanSender(message) \/ LooksHiring(message)) /\ ~HasDirectInquiry(message)
    THEN GateAnswer
  ELSE IF ReceiptScore(message) > 0 /\ ReceiptScore(message) >= SalesScore(message)
    THEN [ReceiptAnswer(message) EXCEPT !.confidence = 65 + ReceiptScore(message) * 8]
  ELSE IF SalesScore(message) > 0 THEN SalesRule(message)
  ELSE LaterRules(message)

\* confidences are in hundredths: 94 is 0.94
classifyInbound(message) ==
  LET text == TextOf(message)
      senderEmail == extractEmailAddress(message.from)
      senderDomain == extractEmailDomain(senderEmail)
      hasDirectInquiry == includesAny(text, directInquirySignals)
      senderLocal == LocalPart(senderEmail)
      looksAutomated ==
        \/ includesAny({senderLocal}, automatedSenderSignals)
        \/ includesAny(text, automatedTextSignals)
        \/ includesAny(text, automatedSenderSignals)
      looksHiring == includesAny(text, hiringSignals)
      fromJobNetwork == senderDomain # "" /\ senderDomain \in jobNetworkDomains
      fromVendorSystem == senderDomain # "" /\ senderDomain \in vendorSystemDomains
      likelyNonHumanSender == looksAutomated \/ fromJobNetwork \/ fromVendorSystem
      receiptScore == countSignals(text, receiptSignals)
      salesScore == countSignals(text, salesSignals)
      supportScore == countSignals(text, supportSignals)
      ignoreScore == countSignals(text, ignoreSignals)
  IN  IF (likelyNonHumanSender \/ looksHiring) /\ ~hasDirectInquiry
        THEN [label |-> "ignore", confidence |-> 94,
              reasons |-> <<"non-business-automation-filter">>]
      ELSE IF receiptScore > 0 /\ receiptScore >= salesScore
        THEN [label |-> "receipt", confidence |-> Min(65 + receiptScore * 8, 96),
              reasons |-> <<"matched-receipt-signals">>]
      ELSE IF salesScore > 0
        THEN IF ~hasDirectInquiry \/ likelyNonHumanSender \/ looksHiring
               THEN [label |-> "ignore", confidence |-> 90,
                     reasons |-> <<"sales-needs-human-direct-inquiry">>]
               ELSE [label |-> "sales", confidence |-> Min(62 + salesScore * 7, 95),
                     reasons |-> <<"matched-sales-signals">>]
      ELSE IF supportScore > 0
        THEN [label |-> "support", confidence |-> Min(58 + supportScore * 8, 90),
              reasons |-> <<"matched-support-signals">>]
      ELSE IF ignoreScore > 0
        THEN [label |-> "ignore", confidence |-> Min(60 + ignoreScore * 8, 92),
              reasons |-> <<"matched-ignore-signals">>]
      ELSE [label |-> "ignore", confidence |-> 52, reasons |-> <<"no-strong-signal">>]

\* the value of a classification not made yet
NoClassification == [label |-> "", confidence |-> 0, reasons |-> <<>>]

\* ------------------------------------------------------- the poll batches

InfoBox == "info@promptcircle.com"
UgoBox == "ugo@promptcircle.com"
PatBox == "pat.ugosuji@gmail.com"

Mailboxes == {InfoBox, UgoBox, PatBox}

\* PollMessage; subject and snippet are the phrases of their lower-cased text
PollMessage(account, id, key, from, subject, snippet, received, internal) ==
  [account_email |-> account, message_id |-> id, source_key |-> key, from |-> from,
   subject |-> subject, snippet |-> snippet, received_at |-> received,
   internal_ts |-> internal]

\* a direct inquiry of a person: sales
mSales ==
  PollMessage(InfoBox, "m1", "info:m1", "Jane Doe <jane@acmeco.com>", {"consulting"},
              {"we are interested", "retainer", "could we", "book a call"}, Ts(2, "Z"), 0)
\* the same person, earlier, with a problem: support
mSupport ==
  PollMessage(InfoBox, "m2", "info:m2", "Jane Doe <jane@acmeco.com>", {"issue"},
              {"unable", "error"}, Ts(1, "Z"), 0)
\* an invoice: receipt
mReceipt ==
  PollMessage(InfoBox, "m3", "info:m3", "billing@vendor.com", {"invoice"},
              {"payment", "charged"}, Ts(3, "+01:00"), 0)
\* a job alert of a job network: ignore, by the gate
mJobAlert ==
  PollMessage(InfoBox, "m4", "info:m4", "jobalerts@linkedin.com", {"job alert"},
              {"career opportunity"}, Ts(3, "Z"), 0)
\* a direct inquiry whose From header holds no address, dated by internal_ts only
mNoSender ==
  PollMessage(UgoBox, "m5", "ugo:m5", "Sam Lee", {"partnership"},
              {"looking for", "proposal"}, NoTs, 2)
\* a message with no text, no sender and no timestamp
mBare == PollMessage(UgoBox, "m6", "ugo:m6", "", {}, {}, NoTs, 0)

SampleMessages == {mSales, mSupport, mReceipt, mJobAlert, mNoSender, mBare}

\* the support message again, under another id and with neither received_at nor
\* internal_ts
mUndated ==
  PollMessage(InfoBox, "m7", "info:m7", "Jane Doe <jane@acmeco.com>", {"issue"},
              {"unable", "error"}, NoTs, 0)

\* const classification = classifyInbound(message), for each message of a batch
Classification == [m \in SampleMessages \cup {mUndated} |-> classifyInbound(m)]

SeqsUpTo(S, n) == UNION {[1..k -> S] : k \in 0..n}

\* SopSnapshot, as far as main() reads it: whether the file could be read, its
\* degraded flag and its warnings
SopMissing == [present |-> FALSE, degraded |-> FALSE, warnings |-> <<>>]
SopFresh == [present |-> TRUE, degraded |-> FALSE, warnings |-> <<>>]
SopDegraded == [present |-> TRUE, degraded |-> TRUE, warnings |-> <<"sop-fetch-failed">>]
SopDegradedSilent == [present |-> TRUE, degraded |-> TRUE, warnings |-> <<>>]

\* what a run reads besides the messages: the run id of the batch (0: none), its
\* partial-failure flag, its per-mailbox summaries (the mailboxes), the snapshot
Header(runId, partialFailure, perAccount, sop) ==
  [run_id |-> runId, partial_failure |-> partialFailure, per_account |-> perAccount,
   sop |-> sop]

\* the usual input, and the inputs that differ from it in one respect
HeadersBatch ==
  { Header(1, FALSE, <<>>, SopFresh), Header(0, FALSE, <<>>, SopFresh),
    Header(1, TRUE, <<>>, SopFresh), Header(1, FALSE, <<PatBox>>, SopFresh),
    Header(1, FALSE, <<>>, SopMissing), Header(1, FALSE, <<>>, SopDegraded),
    Header(1, FALSE, <<>>, SopDegradedSilent) }

HeadersSeq == { Header(1, FALSE, <<>>, SopFresh), Header(0, TRUE, <<PatBox>>, SopDegraded) }

HeadersConc == { Header(0, FALSE, <<>>, SopFresh) }

\* the inputs of a behaviour, by the kind of behaviour: runs one after the other
\* ("seq"), one run over a longer batch ("batch"), two interleaved processes ("conc")
Headers(scope) ==
  CASE scope = "seq" -> HeadersSeq [] scope = "batch" -> HeadersBatch [] OTHER -> HeadersConc

Pool(scope) ==
  CASE scope = "seq" -> {mSales, mSupport, mReceipt, mUndated}
    [] scope = "batch" -> SampleMessages
    [] OTHER -> {mSales, mReceipt}

LenCap(scope) == IF scope = "batch" THEN MaxLenBatch ELSE MaxLen

Runs(scope) == CASE scope = "seq" -> MaxRuns [] scope = "batch" -> 1 [] OTHER -> MaxRunsConc

\* PollFile and SopSnapshot of one run
Inputs(scope) ==
  { [poll |-> [run_id |-> h.run_id, partial_failure |-> h.partial_failure,
               messages |-> ms, per_account |-> h.per_account],
     sop |-> h.sop] : h \in Headers(scope), ms \in SeqsUpTo(Pool(scope), LenCap(scope)) }

\* message.received_at || (message.internal_ts ? new Date(internal_ts).toISOString() : undefined)
messageTs(message) ==
  IF message.received_at # NoTs THEN message.received_at
  ELSE IF message.internal_ts # 0 THEN toISOString(message.internal_ts)
  ELSE NoTs

\* ---------------------------------------------------------------- the store

VARIABLES
  db,          \* the six tables: table name -> sequence of rows
  run,         \* per process of main(): its program counter, input and locals
  clock,       \* the wall clock, as the instant new Date() gives
  runsLeft,    \* runs of main() still to start
  faults,      \* requests that may still fail
  approvals,   \* external approval actions still to come
  scope,       \* the kind of behaviour: "seq", "batch" or "conc"
  last,        \* the run that ended last: whether it completed, and its messages
  probe        \* one message handed to classifyInbound on its own, and the answer

vars == <<db, run, clock, runsLeft, faults, approvals, scope, last, probe>>

\* the processes that may run main()
Procs == {1, 2}

DEFAULT_CONTACTS_TABLE == "crm_contacts"
DEFAULT_ACTIVITIES_TABLE == "crm_activities"
DEFAULT_DRAFTS_TABLE == "crm_drafts"
DEFAULT_ACCOUNTING_TABLE == "accounting_entries"
DEFAULT_JOB_RUNS_TABLE == "crm_job_runs"
DEFAULT_POLL_STATE_TABLE == "crm_poll_state"

Tables ==
  { DEFAULT_CONTACTS_TABLE, DEFAULT_ACTIVITIES_TABLE, DEFAULT_DRAFTS_TABLE,
    DEFAULT_ACCOUNTING_TABLE, DEFAULT_JOB_RUNS_TABLE, DEFAULT_POLL_STATE_TABLE }

\* a new row of a table before the payload is applied: the store's generated id,
\* every other column null
NullRow(table, id) ==
  CASE table = DEFAULT_CONTACTS_TABLE ->
         [id |-> id, email |-> "", display_name |-> "", last_seen_at |-> NoTs,
          source_account_email |-> ""]
    [] table = DEFAULT_ACTIVITIES_TABLE ->
         [id |-> id, source_key |-> "", account_email |-> "", message_id |-> "",
          from_email |-> "", received_at |-> NoTs, classification |-> "",
          classification_confidence |-> 0, classification_reasons |-> <<>>,
          contact_id |-> 0]
    [] table = DEFAULT_DRAFTS_TABLE ->
         [id |-> id, activity_id |-> 0, account_email |-> "", to_email |-> "",
          status |-> "", reply_to_message_id |-> "", slack_summary |-> 0]
    [] table = DEFAULT_ACCOUNTING_TABLE ->
         [id |-> id, source_key |-> "", activity_id |-> 0, account_email |-> "",
          receipt_date |-> NoTs]
    [] table = DEFAULT_JOB_RUNS_TABLE ->
         [id |-> id, started_at |-> NoTs, finished_at |-> NoTs, status |-> "",
          degraded |-> FALSE, poll_partial_failure |-> FALSE, metrics |-> [polled_messages |-> 0], warnings |-> <<>>]
    [] table = DEFAULT_POLL_STATE_TABLE ->
         [id |-> id, account_email |-> "", last_polled_at |-> NoTs,
          last_message_ts |-> NoTs]

\* a stored row with the columns of a request body written over it; a column the
\* body does not carry (JSON.stringify drops an undefined property) keeps its value
Merge(old, body) ==
  [col \in DOMAIN old |-> IF col \in DOMAIN body THEN body[col] ELSE old[col]]

\* the rows of a table the body collides with on the on_conflict column
Conflicting(rows, onConflict, body) ==
  {k \in 1..Len(rows) : onConflict \in DOMAIN body /\ rows[k][onConflict] = body[onConflict]}

\* a body posted with no conflict resolution: always a new row
supabaseInsertRow(table, rows, onConflict, body) ==
  Append(rows, Merge(NullRow(table, Len(rows) + 1), body))

\* POST ?on_conflict=<column> with Prefer: resolution=merge-duplicates: the row that
\* holds the body's value of the column is updated, and a row is inserted only when
\* there is none
supabaseUpsertRow(table, rows, onConflict, body) ==
  LET hit == Conflicting(rows, onConflict, body)
  IN  IF hit = {}
        THEN Append(rows, Merge(NullRow(table, Len(rows) + 1), body))
        ELSE [k \in 1..Len(rows) |-> IF k \in hit THEN Merge(rows[k], body) ELSE rows[k]]

\* what supabaseUpsertRow hands back: the stored row (return=representation), or
\* the request body itself when the response is no non-empty array
Returned(rowsAfter, onConflict, body, outcome) ==
  IF outcome = "ok"
    THEN rowsAfter[CHOOSE k \in Conflicting(rowsAfter, onConflict, body) : TRUE]
    ELSE body

\* PATCH ?<column>=eq.<value>: every row the filter selects gets the patch
supabasePatchRows(rows, column, value, patch) ==
  [k \in 1..Len(rows) |-> IF rows[k][column] = value THEN Merge(rows[k], patch) ELSE rows[k]]

\* typeof row.id === "string" ? row.id : undefined
IdOf(row) == IF "id" \in DOMAIN row THEN row.id ELSE 0

\* the outcomes of one request to the store: answered with the stored row, failed
\* (a non-2xx answer or a transport error), or answered without a representation
RequestOutcomes == {"ok", "error", "norep"}

\* the outcomes of a request whose answer main() does not read
WriteOutcomes == {"ok", "error"}

\* a faulty supabaseRequest: the failed response is handed back like any other
RequestNeverThrows(outcome) == FALSE

\* supabaseRequest throws on a response that is not ok
RequestThrows(outcome) == outcome = "error"

\* ------------------------------------------------------------ one run of main()

EmptyPoll == [run_id |-> 0, partial_failure |-> FALSE, messages |-> <<>>, per_account |-> <<>>]

\* the ProcessResult main() starts from
InitialResult(runId, startedAt, poll, sop) ==
  [run_id |-> runId, started_at |-> startedAt, finished_at |-> NoTs, status |-> "ok",
   degraded |-> sop.present /\ sop.degraded,
   totals |-> [polled_messages |-> Len(poll.messages), processed_messages |-> 0,
               activities_upserted |-> 0, drafts_upserted |-> 0,
               accounting_entries_upserted |-> 0],
   classification_counts |-> [receipt |-> 0, sales |-> 0, support |-> 0, ignore |-> 0],
   sales_drafts |-> <<>>, accounting_entries |-> <<>>, poll_state_updates |-> <<>>,
   warnings |-> IF ~sop.present
                  THEN <<"No SOP snapshot found; continuing with default routing behavior.">>
                  ELSE IF sop.degraded THEN sop.warnings ELSE <<>>]

\* the row counts the idempotence claim is about
RowCounts(d) ==
  [activities |-> Len(d[DEFAULT_ACTIVITIES_TABLE]), drafts |-> Len(d[DEFAULT_DRAFTS_TABLE]),
   accounting |-> Len(d[DEFAULT_ACCOUNTING_TABLE])]

\* a process that has not started main()
IdleRun ==
  [pc |-> "idle", poll |-> EmptyPoll, sop |-> SopFresh,
   i |-> 1, result |-> InitialResult(0, NoTs, EmptyPoll, SopFresh),
   maxTsByAccount |-> [a \in Mailboxes |-> NoTs],
   contactId |-> 0, activityId |-> 0, draftId |-> 0, accountSet |-> <<>>,
   log |-> <<>>, error |-> "", emitted |-> 0,
   countsAtStart |-> [activities |-> 0, drafts |-> 0, accounting |-> 0], repeat |-> FALSE,
   env |-> "ok"]

NoLast == [done |-> FALSE, messages |-> <<>>]

\* poll.run_id || randomUUID(): a generated id is one no batch carries and no other
\* run generates
randomUUID(now) == 0 - now

\* one request in the log of a run
Request(op, table, outcome) == [op |-> op, table |-> table, outcome |-> outcome]

\* the state after a step of process p that made a request with this outcome
Commit(p, r, d, outcome) ==
  /\ outcome # "ok" => faults > 0
  /\ faults' = IF outcome = "ok" THEN faults ELSE faults - 1
  /\ run' = [run EXCEPT ![p] = r]
  /\ db' = d
  /\ last' = IF r.pc = "aborted" THEN NoLast
             ELSE IF r.pc = "done" THEN [done |-> TRUE, messages |-> r.poll.messages]
             ELSE last
  /\ UNCHANGED <<runsLeft, approvals, scope, probe>>

\* an exception main() does not catch ends the process
Throw(r, why) == [r EXCEPT !.pc = "aborted", !.error = why]

\* the row main() upserts into the job runs table before the loop
JobRunRow(runId, startedAt, poll, sop) ==
  [id |-> runId, started_at |-> startedAt, status |-> "running",
   degraded |-> sop.present /\ sop.degraded,
   poll_partial_failure |-> poll.partial_failure,
   metrics |-> [polled_messages |-> Len(poll.messages)]]

\* the environment main() finds: complete, without SUPABASE_URL or
\* SUPABASE_SECRET_KEY, with a poll file that cannot be read as JSON, or with a
\* snapshot file that cannot be read as JSON
Environments == {"ok", "no-config", "bad-poll", "bad-sop"}

\* the environments in which main() throws before its first request
Fatal(env) == env \in {"no-config", "bad-poll"}

\* try { return await readJsonFile(sopFile) } catch { return undefined }
loadSopSnapshot(env, file) == IF env = "bad-sop" THEN SopMissing ELSE file

\* main() up to its first request: arguments, configuration, the poll file, the
\* snapshot, the run id, the upsert of the run record, the initial result
StartRun(p) ==
  /\ run[p].pc \in {"idle", "done", "aborted"}
  /\ runsLeft > 0
  /\ scope # "conc" => p = 1
  /\ runsLeft' = runsLeft - 1
  /\ clock' = clock + 1
  /\ \E input \in Inputs(scope), env \in Environments, outcome \in WriteOutcomes :
       LET poll == input.poll
           sop == loadSopSnapshot(env, input.sop)
           now == toISOString(clock)
           runId == IF poll.run_id # 0 THEN poll.run_id ELSE randomUUID(clock)
           table == DEFAULT_JOB_RUNS_TABLE
           body == JobRunRow(runId, now, poll, sop)
           started == [IdleRun EXCEPT !.poll = poll, !.sop = sop, !.env = env,
                         !.countsAtStart = RowCounts(db),
                         !.repeat = last.done /\ last.messages = poll.messages]
           requested == [started EXCEPT !.log = <<Request("upsert", table, outcome)>>,
                           !.result = InitialResult(runId, now, poll, sop)]
       IN  /\ Fatal(env) => outcome = "error"
           /\ env = "bad-sop" => input.sop = SopMissing
           /\ outcome # "ok" => faults > 0
           /\ faults' = IF outcome = "ok" THEN faults ELSE faults - 1
           /\ IF Fatal(env)
                THEN /\ run' = [run EXCEPT ![p] = Throw(started, env)]
                     /\ db' = db
                ELSE IF RequestThrows(outcome)
                THEN /\ run' = [run EXCEPT ![p] = Throw(requested, "request")]
                     /\ db' = db
                ELSE /\ run' = [run EXCEPT ![p] = [requested EXCEPT !.pc = "message"]]
                     /\ db' = IF outcome = "error" THEN db
                              ELSE [db EXCEPT ![table] = supabaseUpsertRow(table, @, "id", body)]
           /\ last' = IF Fatal(env) \/ RequestThrows(outcome) THEN NoLast ELSE last
  /\ UNCHANGED <<approvals, scope, probe>>

\* a faulty loop: the batch is gone through from its end
CurrentMessageReversed(r) == r.poll.messages[Len(r.poll.messages) + 1 - r.i]

\* the message the loop of process p is at
CurrentMessage(r) == r.poll.messages[r.i]

\* a faulty loop test: the loop ends after its first message
LoopDoneAfterFirst(i, messages) == i > 1 \/ i > Len(messages)

\* for (const message of poll.messages): whether the loop has run out of messages
LoopDone(i, messages) == i > Len(messages)

\* a faulty comparison: the later message always wins
TrackLastTs(maxTs, message) ==
  IF messageTs(message) # NoTs
    THEN [maxTs EXCEPT ![message.account_email] = messageTs(message)]
    ELSE maxTs

\* if (messageTs) { prior = map.get(account); if (!prior || parse(ts) > parse(prior)) set }
TrackMaxTs(maxTs, message) ==
  LET ts == messageTs(message)
      prior == maxTs[message.account_email]
  IN  IF ts # NoTs /\ (prior = NoTs \/ DateParse(ts) > DateParse(prior))
        THEN [maxTs EXCEPT ![message.account_email] = ts]
        ELSE maxTs

\* a record with a property only when its value is defined
Optional(defined, property) == IF defined THEN property ELSE <<>>

\* the row of the contacts upsert
ContactRow(message, now) ==
  [email |-> extractEmailAddress(message.from),
   last_seen_at |-> IF messageTs(message) # NoTs THEN messageTs(message) ELSE now,
   source_account_email |-> message.account_email]
  @@ Optional(extractDisplayName(message.from) # "",
              [display_name |-> extractDisplayName(message.from)])

\* a faulty test: a Contact for every message with a sender address
NeedsContactAnyLabel(message) == extractEmailAddress(message.from) # ""

\* whether main() upserts a Contact for the message
NeedsContact(message) ==
  /\ extractEmailAddress(message.from) # ""
  /\ Classification[message].label \in {"sales", "support"}

\* the head of the loop body: classification, the per-mailbox maximum, and the
\* Contact upsert of a sales or support message with a sender address
BeginMessage(p) ==
  LET r == run[p]
      message == CurrentMessage(r)
      label == Classification[message].label
      table == DEFAULT_CONTACTS_TABLE
      body == ContactRow(message, r.result.started_at)
      counted == [r EXCEPT !.result.classification_counts[label] = @ + 1,
                           !.maxTsByAccount = TrackMaxTs(@, message)]
  IN  /\ r.pc = "message"
      /\ ~LoopDone(r.i, r.poll.messages)
      /\ UNCHANGED clock
      /\ IF NeedsContact(message)
           THEN \E outcome \in RequestOutcomes :
                  LET rows == IF outcome = "error" THEN db[table]
                              ELSE supabaseUpsertRow(table, db[table], "email", body)
                      contact == Returned(rows, "email", body, outcome)
                      logged == [counted EXCEPT !.log = Append(@, Request("upsert", table, outcome))]
                  IN  IF RequestThrows(outcome)
                        THEN Commit(p, Throw(logged, "request"), db, outcome)
                        ELSE Commit(p, [logged EXCEPT !.contactId = IdOf(contact), !.pc = "activity"],
                                    [db EXCEPT ![table] = rows], outcome)
           ELSE Commit(p, [counted EXCEPT !.contactId = 0, !.pc = "activity"], db, "ok")

\* activityPayload
ActivityRow(message, contactId) ==
  [source_key |-> message.source_key, account_email |-> message.account_email,
   message_id |-> message.message_id,
   classification |-> Classification[message].label,
   classification_confidence |-> Classification[message].confidence,
   classification_reasons |-> Classification[message].reasons]
  @@ Optional(extractEmailAddress(message.from) # "",
              [from_email |-> extractEmailAddress(message.from)])
  @@ Optional(messageTs(message) # NoTs, [received_at |-> messageTs(message)])
  @@ Optional(contactId # 0, [contact_id |-> contactId])

\* a faulty end of a message: the message is not counted as processed
EndMessageUncounted(r) == [r EXCEPT !.i = @ + 1, !.pc = "message"]

\* the end of the loop body: result.totals.processed_messages += 1, next message
EndMessage(r) ==
  [r EXCEPT !.result.totals.processed_messages = @ + 1, !.i = @ + 1, !.pc = "message"]

\* the Activity upsert, the check of its id, and the branch on the label
UpsertActivity(p) ==
  LET r == run[p]
      message == CurrentMessage(r)
      label == Classification[message].label
      table == DEFAULT_ACTIVITIES_TABLE
      body == ActivityRow(message, r.contactId)
  IN  /\ r.pc = "activity"
      /\ UNCHANGED clock
      /\ \E outcome \in RequestOutcomes :
           LET rows == IF outcome = "error" THEN db[table]
                       ELSE supabaseUpsertRow(table, db[table], "source_key", body)
               activityId == IdOf(Returned(rows, "source_key", body, outcome))
               logged == [r EXCEPT !.log = Append(@, Request("upsert", table, outcome))]
               counted == [logged EXCEPT !.activityId = activityId,
                                         !.result.totals.activities_upserted = @ + 1]
           IN  IF RequestThrows(outcome)
                 THEN Commit(p, Throw(logged, "request"), db, outcome)
               ELSE IF activityId = 0
                 THEN Commit(p, Throw(logged, "missing-id"), [db EXCEPT ![table] = rows], outcome)
               ELSE IF label = "sales"
                 THEN Commit(p, [counted EXCEPT !.pc = "draft"], [db EXCEPT ![table] = rows], outcome)
               ELSE IF label = "receipt"
                 THEN Commit(p, [counted EXCEPT !.pc = "accounting"], [db EXCEPT ![table] = rows], outcome)
               ELSE Commit(p, EndMessage(counted), [db EXCEPT ![table] = rows], outcome)

\* a faulty recipient: the sender address as it is, resolved or not
ToEmailUnresolved(message) == extractEmailAddress(message.from)

\* senderEmail || "unknown@example.com"
ToEmail(message) ==
  IF extractEmailAddress(message.from) # "" THEN extractEmailAddress(message.from)
  ELSE "unknown@example.com"

\* the row of the drafts upsert (subject and body are left to buildSalesDraft)
DraftRow(message, activityId) ==
  [activity_id |-> activityId, account_email |-> message.account_email,
   to_email |-> ToEmail(message), status |-> "draft",
   reply_to_message_id |-> message.message_id]

\* the Draft upsert of a sales message and the check of its id
UpsertDraft(p) ==
  LET r == run[p]
      message == CurrentMessage(r)
      table == DEFAULT_DRAFTS_TABLE
      body == DraftRow(message, r.activityId)
  IN  /\ r.pc = "draft"
      /\ UNCHANGED clock
      /\ \E outcome \in RequestOutcomes :
           LET rows == IF outcome = "error" THEN db[table]
                       ELSE supabaseUpsertRow(table, db[table], "activity_id", body)
               draftId == IdOf(Returned(rows, "activity_id", body, outcome))
               logged == [r EXCEPT !.log = Append(@, Request("upsert", table, outcome))]
           IN  IF RequestThrows(outcome)
                 THEN Commit(p, Throw(logged, "request"), db, outcome)
               ELSE IF draftId = 0
                 THEN Commit(p, Throw(logged, "missing-id"), [db EXCEPT ![table] = rows], outcome)
               ELSE Commit(p, [logged EXCEPT !.draftId = draftId, !.pc = "patch"],
                           [db EXCEPT ![table] = rows], outcome)

\* the patch of the stored draft with the text of its notification, which names
\* the draft id
PatchDraft(p) ==
  LET r == run[p]
      table == DEFAULT_DRAFTS_TABLE
  IN  /\ r.pc = "patch"
      /\ UNCHANGED clock
      /\ \E outcome \in WriteOutcomes :
           LET rows == IF outcome = "error" THEN db[table]
                       ELSE supabasePatchRows(db[table], "id", r.draftId,
                                              [slack_summary |-> r.draftId])
               logged == [r EXCEPT !.log = Append(@, Request("patch", table, outcome))]
           IN  IF RequestThrows(outcome)
                 THEN Commit(p, Throw(logged, "request"), db, outcome)
                 ELSE Commit(p, [logged EXCEPT !.pc = "slack"], [db EXCEPT ![table] = rows], outcome)

\* the answers of maybePostSlack: posted; not tried for want of a token or a
\* channel; refused by the channel; or the request itself throwing
SlackOutcomes == {"posted", "missing", "rejected", "throw"}

\* the notification of a sales draft and its entry in result.sales_drafts
PostSlack(p) ==
  LET r == run[p]
      message == CurrentMessage(r)
  IN  /\ r.pc = "slack"
      /\ UNCHANGED clock
      /\ \E outcome \in SlackOutcomes :
           LET logged == [r EXCEPT !.log = Append(@, Request("post", "slack", outcome))]
               entry == [draft_id |-> r.draftId, activity_id |-> r.activityId,
                         account_email |-> message.account_email,
                         to_email |-> ToEmail(message),
                         slack_posted |-> outcome = "posted",
                         slack_error |-> IF outcome = "posted" THEN "" ELSE outcome]
               reported == [logged EXCEPT !.result.sales_drafts = Append(@, entry),
                                          !.result.totals.drafts_upserted = @ + 1]
           IN  IF outcome = "throw"
                 THEN Commit(p, Throw(logged, "slack"), db, "error")
                 ELSE Commit(p, EndMessage(reported), db,
                             IF outcome = "posted" THEN "ok" ELSE "error")

\* the row of the accounting upsert (vendor, amount and currency are left to
\* parseReceiptInfo)
AccountingRow(message, activityId) ==
  [source_key |-> message.source_key, activity_id |-> activityId,
   account_email |-> message.account_email]
  @@ Optional(messageTs(message) # NoTs, [receipt_date |-> messageTs(message)])

\* the FinancialRecord upsert of a receipt message and its entry in the result
UpsertAccounting(p) ==
  LET r == run[p]
      message == CurrentMessage(r)
      table == DEFAULT_ACCOUNTING_TABLE
      body == AccountingRow(message, r.activityId)
  IN  /\ r.pc = "accounting"
      /\ UNCHANGED clock
      /\ \E outcome \in WriteOutcomes :
           LET rows == IF outcome = "error" THEN db[table]
                       ELSE supabaseUpsertRow(table, db[table], "source_key", body)
               logged == [r EXCEPT !.log = Append(@, Request("upsert", table, outcome))]
               entry == [activity_id |-> r.activityId, source_key |-> message.source_key]
               reported == [logged EXCEPT !.result.accounting_entries = Append(@, entry),
                                          !.result.totals.accounting_entries_upserted = @ + 1]
           IN  IF RequestThrows(outcome)
                 THEN Commit(p, Throw(logged, "request"), db, outcome)
                 ELSE Commit(p, EndMessage(reported), [db EXCEPT ![table] = rows], outcome)

\* Set.add on a set kept in insertion order
AddAccount(accounts, a) ==
  IF a = "" \/ \E k \in 1..Len(accounts) : accounts[k] = a THEN accounts ELSE Append(accounts, a)

RECURSIVE AddAccounts(_, _)
AddAccounts(accounts, more) ==
  IF more = <<>> THEN accounts ELSE AddAccounts(AddAccount(accounts, Head(more)), Tail(more))

\* accountSet: the mailboxes of the messages, then those of poll.per_account
AccountSet(poll) ==
  AddAccounts(AddAccounts(<<>>, [k \in 1..Len(poll.messages) |-> poll.messages[k].account_email]),
              poll.per_account)

\* the loop has run out of messages: main() collects the mailboxes of the batch
EndLoop(p) ==
  LET r == run[p]
  IN  /\ r.pc = "message"
      /\ LoopDone(r.i, r.poll.messages)
      /\ UNCHANGED clock
      /\ Commit(p, [r EXCEPT !.accountSet = AccountSet(r.poll), !.pc = "poll_state"], db, "ok")

\* a faulty stateRow: a watermark that is not defined is written as null
PollStateRowNull(accountEmail, now, maxTs) ==
  [account_email |-> accountEmail, last_polled_at |-> now, last_message_ts |-> maxTs]

\* stateRow
PollStateRow(accountEmail, now, maxTs) ==
  [account_email |-> accountEmail, last_polled_at |-> now]
  @@ Optional(maxTs # NoTs, [last_message_ts |-> maxTs])

\* the watermark upsert of the next mailbox of accountSet
UpsertPollState(p) ==
  LET r == run[p]
      table == DEFAULT_POLL_STATE_TABLE
      accountEmail == Head(r.accountSet)
      now == r.result.started_at
      body == PollStateRow(accountEmail, now, r.maxTsByAccount[accountEmail])
  IN  /\ r.pc = "poll_state"
      /\ r.accountSet # <<>>
      /\ UNCHANGED clock
      /\ \E outcome \in WriteOutcomes :
           LET rows == IF outcome = "error" THEN db[table]
                       ELSE supabaseUpsertRow(table, db[table], "account_email", body)
               logged == [r EXCEPT !.log = Append(@, Request("upsert", table, outcome))]
               entry == [account_email |-> accountEmail, last_polled_at |-> now,
                         last_message_ts |-> r.maxTsByAccount[accountEmail]]
           IN  IF RequestThrows(outcome)
                 THEN Commit(p, Throw(logged, "request"), db, outcome)
                 ELSE Commit(p, [logged EXCEPT !.accountSet = Tail(@),
                                               !.result.poll_state_updates = Append(@, entry)],
                             [db EXCEPT ![table] = rows], outcome)

\* a faulty status rule: the flag of the batch is not looked at
StatusFromSlackOnly(poll, result) ==
  IF \E k \in 1..Len(result.sales_drafts) : ~result.sales_drafts[k].slack_posted
    THEN "partial_failure" ELSE result.status

\* if (poll.partial_failure || result.sales_drafts.some((e) => !e.slack_posted))
\*   result.status = "partial_failure"
TerminalStatus(poll, result) ==
  IF \/ poll.partial_failure
     \/ \E k \in 1..Len(result.sales_drafts) : ~result.sales_drafts[k].slack_posted
    THEN "partial_failure" ELSE result.status

\* the terminal status, and the patch of the run record with it
Finalize(p) ==
  LET r == run[p]
      table == DEFAULT_JOB_RUNS_TABLE
      now == r.result.started_at
      final == [r.result EXCEPT !.status = TerminalStatus(r.poll, r.result),
                                !.finished_at = now]
      patch == [finished_at |-> final.finished_at, status |-> final.status,
                degraded |-> final.degraded, metrics |-> final.totals,
                warnings |-> final.warnings]
  IN  /\ r.pc = "poll_state"
      /\ r.accountSet = <<>>
      /\ UNCHANGED clock
      /\ \E outcome \in WriteOutcomes :
           LET rows == IF outcome = "error" THEN db[table]
                       ELSE supabasePatchRows(db[table], "id", r.result.run_id, patch)
               logged == [r EXCEPT !.result = final,
                                   !.log = Append(@, Request("patch", table, outcome))]
           IN  IF RequestThrows(outcome)
                 THEN Commit(p, Throw(logged, "request"), db, outcome)
                 ELSE Commit(p, [logged EXCEPT !.pc = "output"], [db EXCEPT ![table] = rows], outcome)

\* writeJson(outputFile, result) and console.log of the result
WriteResult(p) ==
  LET r == run[p]
  IN  /\ r.pc = "output"
      /\ UNCHANGED clock
      /\ Commit(p, [r EXCEPT !.emitted = @ + 1, !.pc = "done"], db, "ok")

\* the statuses the approval handler gives a draft (approve, revise, reject)
ApprovalStatuses == {"approved", "revised", "rejected"}

\* the external approval action on a stored draft
ApprovalAction ==
  /\ approvals > 0
  /\ \A p \in Procs : run[p].pc \in {"idle", "done", "aborted"}
  /\ approvals' = approvals - 1
  /\ \E k \in 1..Len(db[DEFAULT_DRAFTS_TABLE]), status \in ApprovalStatuses :
       db' = [db EXCEPT ![DEFAULT_DRAFTS_TABLE][k].status = status]
  /\ UNCHANGED <<run, clock, runsLeft, faults, scope, last, probe>>

\* ------------------------------------------------------- the specifications

\* the first instant new Date() gives: after the instants of the sample messages
FirstNow == 4

\* no message handed to classifyInbound on its own
NoProbe == [message |-> mBare, classification |-> NoClassification, done |-> TRUE]

InitStore ==
  /\ db = [t \in Tables |-> <<>>]
  /\ run = [p \in Procs |-> IdleRun]
  /\ clock = FirstNow
  /\ faults = MaxFaults
  /\ approvals = MaxApprovals
  /\ last = NoLast
  /\ probe = NoProbe

\* runs one after the other, as the scheduler is assumed to start them
Init == InitStore /\ scope = "seq" /\ runsLeft = Runs(scope)

\* one run over a longer batch
InitBatch == InitStore /\ scope = "batch" /\ runsLeft = Runs(scope)

\* two processes whose requests interleave
InitConc == InitStore /\ scope = "conc" /\ runsLeft = Runs(scope)

Step(p) ==
  \/ StartRun(p)
  \/ BeginMessage(p)
  \/ UpsertActivity(p)
  \/ UpsertDraft(p)
  \/ PatchDraft(p)
  \/ PostSlack(p)
  \/ UpsertAccounting(p)
  \/ EndLoop(p)
  \/ UpsertPollState(p)
  \/ Finalize(p)
  \/ WriteResult(p)

Next == (\E p \in Procs : Step(p)) \/ ApprovalAction

Spec == Init /\ [][Next]_vars

SpecBatch == InitBatch /\ [][Next]_vars

SpecConc == InitConc /\ [][Next]_vars

\* the phrases the text of a probe message is made of
ProbePhrases ==
  { "pricing", "demo", "could we", "invoice", "payment", "issue", "promo", "hiring",
    "job alert" }

\* the longest text of a probe message, in phrases
MaxPhrases == 3

\* the messages handed to classifyInbound on its own: every From header with every
\* text of up to MaxPhrases phrases, as the subject
ProbeMessages ==
  { PollMessage(InfoBox, "p", "info:p", from, subject, {}, NoTs, 0) :
      from \in FromStrings,
      subject \in {t \in SUBSET ProbePhrases : Cardinality(t) <= MaxPhrases} }

\* four messages with more keywords of one lexicon than its confidence rewards: of
\* the receipt, the sales, the support and the ignore lexicon
LongProbes ==
  { PollMessage(InfoBox, "p", "info:p", "billing@vendor.com", {"tax invoice"},
                {"charged", "payment"}, NoTs, 0),
    PollMessage(InfoBox, "p", "info:p", "Jane Doe <jane@acmeco.com>",
                {"sponsorship inquiry", "partnership", "proposal"},
                {"pricing", "demo", "campaign"}, NoTs, 0),
    PollMessage(InfoBox, "p", "info:p", "Jane Doe <jane@acmeco.com>",
                {"support", "issue"}, {"error", "problem", "bug"}, NoTs, 0),
    PollMessage(InfoBox, "p", "info:p", "Sam Lee", {"promotion", "marketing update"},
                {"could we", "newsletter", "unsubscribe"}, NoTs, 0) }

\* classifyInbound on its own, on any of the probe messages
InitClassify ==
  /\ db = [t \in Tables |-> <<>>]
  /\ run = [p \in Procs |-> IdleRun]
  /\ clock = FirstNow
  /\ faults = 0
  /\ approvals = 0
  /\ last = NoLast
  /\ scope = "classify"
  /\ runsLeft = 0
  /\ probe \in {[message |-> m, classification |-> NoClassification, done |-> FALSE] :
                  m \in ProbeMessages \cup LongProbes}

\* const classification = classifyInbound(message)
Classify ==
  /\ ~probe.done
  /\ probe' = [probe EXCEPT !.classification = classifyInbound(probe.message), !.done = TRUE]
  /\ UNCHANGED <<db, run, clock, runsLeft, faults, approvals, scope, last>>

NextClassify == Classify

SpecClassify == InitClassify /\ [][NextClassify]_vars

\* ---------------------------------------------------- strings, by character

CharAt(s, k) == SubSeq(s, k, k)

Chars(s) == {CharAt(s, k) : k \in 1..Len(s)}

UpperCaseLetters == "ABCDEFGHIJKLMNOPQRSTUVWXYZ"

LowerCaseLetters == "abcdefghijklmnopqrstuvwxyz"

DecimalDigits == "0123456789"

\* String.prototype.toLowerCase
RECURSIVE toLowerCaseString(_)
toLowerCaseString(s) ==
  IF s = "" THEN ""
  ELSE LET c == Head(s)
           ks == {k \in 1..26 : CharAt(UpperCaseLetters, k) = c}
       IN  (IF ks = {} THEN c ELSE CharAt(LowerCaseLetters, CHOOSE k \in ks : TRUE))
           \o toLowerCaseString(Tail(s))

\* \s
IsSpace(c) == c \in {" ", "\t", "\n", "\r"}

RECURSIVE trimStart(_)
trimStart(s) == IF s # "" /\ IsSpace(Head(s)) THEN trimStart(Tail(s)) ELSE s

RECURSIVE trimEnd(_)
trimEnd(s) ==
  IF s # "" /\ IsSpace(CharAt(s, Len(s))) THEN trimEnd(SubSeq(s, 1, Len(s) - 1)) ELSE s

\* String.prototype.trim
trim(s) == trimEnd(trimStart(s))

\* String.prototype.startsWith
startsWith(s, prefix) == Len(s) >= Len(prefix) /\ SubSeq(s, 1, Len(prefix)) = prefix

\* Array.prototype.join
RECURSIVE join(_, _)
join(lines, separator) ==
  IF lines = << >> THEN ""
  ELSE IF Len(lines) = 1 THEN lines[1]
  ELSE lines[1] \o separator \o join(Tail(lines), separator)

\* the longest beginning of s whose characters are all in a set
TakeWhile(s, set) ==
  LET lengths == {k \in 0..Len(s) : \A j \in 1..k : CharAt(s, j) \in set}
  IN  SubSeq(s, 1, CHOOSE k \in lengths : \A j \in lengths : j <= k)

\* ------------------------------------------------------- the draft composer

\* display.replace(/[^A-Za-z\s-]/g, " ")
RECURSIVE ReplaceNonNameChars(_)
ReplaceNonNameChars(s) ==
  IF s = "" THEN ""
  ELSE LET c == Head(s)
           kept == c \in Chars(UpperCaseLetters) \cup Chars(LowerCaseLetters) \cup {"-"}
                   \/ IsSpace(c)
       IN  (IF kept THEN c ELSE " ") \o ReplaceNonNameChars(Tail(s))

\* s.split(/\s+/)[0]
RECURSIVE FirstField(_)
FirstField(s) ==
  IF s = "" \/ IsSpace(Head(s)) THEN "" ELSE Head(s) \o FirstField(Tail(s))

\* firstNameFromDisplay; an undefined display is the empty one
firstNameFromDisplay(display) ==
  IF display = "" THEN "there"
  ELSE LET cleanDisplay == trim(ReplaceNonNameChars(display))
       IN  IF cleanDisplay = "" THEN "there"
           ELSE IF FirstField(cleanDisplay) = "" THEN "there"
           ELSE FirstField(cleanDisplay)

\* a faulty subject rule: only the reply marker written "Re:" is recognised
DraftSubjectCaseSensitive(args) ==
  IF "subject" \in DOMAIN args /\ startsWith(args.subject, "Re:")
    THEN args.subject
    ELSE "Re: " \o (IF "subject" \in DOMAIN args THEN args.subject
                    ELSE "Prompt Circle inquiry")

\* the subject of buildSalesDraft; args has no subject field when it is undefined
DraftSubject(args) ==
  IF "subject" \in DOMAIN args /\ startsWith(toLowerCaseString(args.subject), "re:")
    THEN args.subject
    ELSE "Re: " \o (IF "subject" \in DOMAIN args THEN args.subject
                    ELSE "Prompt Circle inquiry")

\* buildSalesDraft; an undefined display name or snippet is the empty one
buildSalesDraft(args) ==
  LET firstName == firstNameFromDisplay(args.senderDisplayName)
      intentSnippet == IF trim(args.snippet) # "" THEN trim(args.snippet)
                       ELSE "Thanks for reaching out to Prompt Circle."
      sopNote == IF Len(args.sopCues) > 0
                   THEN join([k \in 1..Len(args.sopCues) |-> "- " \o args.sopCues[k]], "\n")
                   ELSE "- Confirm fit and desired outcome\n- Provide next-step CTA"
      body == join(<< "Hi " \o firstName \o ",",
                      "",
                      "Thanks for your message.",
                      intentSnippet,
                      "",
                      "To make this actionable, could you share:",
                      "1) Your primary objective",
                      "2) Timeline",
                      "3) Budget range or decision criteria",
                      "",
                      "Once we have those details, I can send a concrete recommendation and next steps.",
                      "",
                      "Best,",
                      "Prompt Circle",
                      "",
                      "[SOP cues used for this draft]",
                      sopNote >>, "\n")
  IN  [subject |-> DraftSubject(args), body |-> body]

\* ------------------------------------------------ the financial-record parser

\* String.prototype.toUpperCase
RECURSIVE toUpperCaseString(_)
toUpperCaseString(s) ==
  IF s = "" THEN ""
  ELSE LET c == Head(s)
           ks == {k \in 1..26 : CharAt(LowerCaseLetters, k) = c}
       IN  (IF ks = {} THEN c ELSE CharAt(UpperCaseLetters, CHOOSE k \in ks : TRUE))
           \o toUpperCaseString(Tail(s))

\* s.slice(k - 1)
DropTo(s, k) == SubSeq(s, k, Len(s))

\* s.slice(a - 1, b): the characters from the a-th to the b-th, as far as s goes
Slice(s, a, b) == SubSeq(s, a, Min(b, Len(s)))

\* \w, for the \b of the code pattern
WordChars ==
  Chars(UpperCaseLetters) \cup Chars(LowerCaseLetters) \cup Chars(DecimalDigits) \cup {"_"}

\* [0-9][0-9,]*(?:\.[0-9]{2})? matched at the head of s; "" when it does not match
NumberToken(s) ==
  IF s = "" \/ Head(s) \notin Chars(DecimalDigits) THEN ""
  ELSE LET whole == TakeWhile(s, Chars(DecimalDigits) \cup {","})
           rest == DropTo(s, Len(whole) + 1)
       IN  whole \o (IF /\ Len(rest) >= 3 /\ CharAt(rest, 1) = "."
                        /\ CharAt(rest, 2) \in Chars(DecimalDigits)
                        /\ CharAt(rest, 3) \in Chars(DecimalDigits)
                       THEN SubSeq(rest, 1, 3) ELSE "")

\* the number written by digits, commas left out
RECURSIVE NaturalOf(_, _)
NaturalOf(s, sofar) ==
  IF s = "" THEN sofar
  ELSE IF Head(s) = "," THEN NaturalOf(Tail(s), sofar)
  ELSE NaturalOf(Tail(s),
                 10 * sofar + (CHOOSE k \in 1..10 : CharAt(DecimalDigits, k) = Head(s)) - 1)

\* how many digits a whole number has from its first digit that is not a zero,
\* its commas left out
SignificantDigits(whole) ==
  Cardinality({k \in 1..Len(whole) :
                 /\ CharAt(whole, k) # ","
                 /\ \E j \in 1..k : CharAt(whole, j) \notin {",", "0"}})

\* the largest finite number, 1.7976931348623157e308, has 309 digits
MaxFiniteDigits == 309

\* the value of a number that is no longer finite
Infinity == -1

\* Number.parseFloat(token.replace(/,/g, "")), in hundredths: a whole part of
\* more than MaxFiniteDigits digits is past every finite number (the tokens of the
\* probes have fewer than ten digits, or more than MaxFiniteDigits)
parseFloat(token) ==
  LET whole == TakeWhile(token, Chars(DecimalDigits) \cup {","})
      fraction == DropTo(token, Len(whole) + 2)
  IN  IF SignificantDigits(whole) > MaxFiniteDigits THEN Infinity
      ELSE 100 * NaturalOf(whole, 0) + NaturalOf(fraction, 0)

NoMatch == [matched |-> FALSE, lead |-> "", number |-> ""]

\* text.match(/([$€£])\s*([0-9][0-9,]*(?:\.[0-9]{2})?)/): the leftmost match
symbolMatch(text) ==
  LET at == {k \in 1..Len(text) :
               /\ CharAt(text, k) \in {"$", "€", "£"}
               /\ NumberToken(trimStart(DropTo(text, k + 1))) # ""}
  IN  IF at = {} THEN NoMatch
      ELSE LET k == CHOOSE j \in at : \A i \in at : j <= i
           IN  [matched |-> TRUE, lead |-> CharAt(text, k),
                number |-> NumberToken(trimStart(DropTo(text, k + 1)))]

CurrencyCodes == {"USD", "EUR", "GBP", "NGN", "CAD", "AUD"}

\* text.match(/\b(USD|EUR|GBP|NGN|CAD|AUD)\s*([0-9][0-9,]*(?:\.[0-9]{2})?)/i)
codeMatch(text) ==
  LET at == {k \in 1..Len(text) :
               /\ k = 1 \/ CharAt(text, k - 1) \notin WordChars
               /\ toUpperCaseString(Slice(text, k, k + 2)) \in CurrencyCodes
               /\ NumberToken(trimStart(DropTo(text, k + 3))) # ""}
  IN  IF at = {} THEN NoMatch
      ELSE LET k == CHOOSE j \in at : \A i \in at : j <= i
           IN  [matched |-> TRUE, lead |-> Slice(text, k, k + 2),
                number |-> NumberToken(trimStart(DropTo(text, k + 3)))]

\* the currency of a symbol
SymbolCurrency(symbol) ==
  IF symbol = "$" THEN "USD" ELSE IF symbol = "€" THEN "EUR" ELSE "GBP"

\* amount and currency of parseReceiptInfo: the fields that are set; the amount
\* is, by Number.isFinite(amount ?? Number.NaN) ? amount : undefined, when finite
AmountAndCurrency(text) ==
  LET finite(amount) == Optional(amount # Infinity, [amount |-> amount])
  IN  IF symbolMatch(text).matched
        THEN finite(parseFloat(symbolMatch(text).number))
             @@ [currency |-> SymbolCurrency(symbolMatch(text).lead)]
      ELSE IF codeMatch(text).matched
        THEN finite(parseFloat(codeMatch(text).number))
             @@ [currency |-> toUpperCaseString(codeMatch(text).lead)]
      ELSE << >>

\* parseReceiptInfo: the fields that are set; an undefined subject or snippet is
\* the empty one
parseReceiptInfo(message) ==
  LET fromEmail == extractEmailAddress(message.from)
      vendor == IF LocalPart(fromEmail) # "" THEN LocalPart(fromEmail)
                ELSE extractDisplayName(message.from)
      text == message.subject \o " " \o message.snippet
  IN  Optional(vendor # "", [vendor |-> vendor])
      @@ AmountAndCurrency(text)
      @@ Optional(messageTs(message) # NoTs, [receipt_date |-> messageTs(message)])

\* ------------------------------------------------- the guidance-cue extractor

\* String.prototype.includes
Contains(s, part) == \E k \in 1..(Len(s) - Len(part) + 1) : SubSeq(s, k, k + Len(part) - 1) = part

\* the trimmed strings of an array that are not blank, in its order
RECURSIVE TrimmedNonBlank(_)
TrimmedNonBlank(strings) ==
  IF strings = << >> THEN << >>
  ELSE (IF trim(Head(strings)) # "" THEN << trim(Head(strings)) >> ELSE << >>)
       \o TrimmedNonBlank(Tail(strings))

\* the lines pushed for the sections: of each section its heading, then its
\* items; a section is a record of the fields it has, and a field that is no
\* string, or no array, is a field it does not have
RECURSIVE SectionLines(_)
SectionLines(sections) ==
  IF sections = << >> THEN << >>
  ELSE LET section == Head(sections)
           heading == IF "heading" \in DOMAIN section THEN trim(section.heading) ELSE ""
           items == IF "items" \in DOMAIN section THEN section.items ELSE << >>
       IN  (IF heading # "" THEN << heading >> ELSE << >>)
           \o TrimmedNonBlank(items)
           \o SectionLines(Tail(sections))

\* the lines pushed for the blocks: the text of each block that has one
RECURSIVE BlockLines(_)
BlockLines(blocks) ==
  IF blocks = << >> THEN << >>
  ELSE (IF "text" \in DOMAIN Head(blocks) /\ trim(Head(blocks).text) # ""
          THEN << trim(Head(blocks).text) >> ELSE << >>)
       \o BlockLines(Tail(blocks))

\* sop?.sop?.sections and sop?.sop?.blocks where they are arrays, else nothing
SectionsOf(sop) ==
  IF "sop" \in DOMAIN sop /\ "sections" \in DOMAIN sop.sop THEN sop.sop.sections ELSE << >>

BlocksOf(sop) ==
  IF "sop" \in DOMAIN sop /\ "blocks" \in DOMAIN sop.sop THEN sop.sop.blocks ELSE << >>

\* a faulty extractor: the blocks are read whatever the sections gave
LinesWithBlocks(sop) == SectionLines(SectionsOf(sop)) \o BlockLines(BlocksOf(sop))

\* lines: those of the sections, and those of the blocks when the sections gave none
Lines(sop) ==
  IF SectionLines(SectionsOf(sop)) = << >> THEN BlockLines(BlocksOf(sop))
  ELSE SectionLines(SectionsOf(sop))

\* the filter of useful: what a line must hold, lower-cased, to be kept
IsUseful(line) ==
  \E stem \in {"qualif", "response", "lead", "sponsor", "timeline", "pricing"} :
    Contains(toLowerCaseString(line), stem)

\* Array.from(new Set(lines)): each line where it comes first
RECURSIVE Distinct(_, _)
Distinct(lines, seen) ==
  IF lines = << >> THEN << >>
  ELSE IF Head(lines) \in seen THEN Distinct(Tail(lines), seen)
  ELSE << Head(lines) >> \o Distinct(Tail(lines), seen \cup {Head(lines)})

\* pickSopCues; an undefined snapshot is the record of no field
pickSopCues(sop) ==
  LET useful == SelectSeq(Lines(sop), IsUseful)
      unique == Distinct(useful, {})
  IN  SubSeq(unique, 1, Min(6, Len(unique)))

\* ------------------------------------------- the builders, each on its own

\* the builders on their own, each on any of its inputs

\* what main() hands to buildSalesDraft, by sender (those of the batches, a number
\* and a punctuated name), subject (or none), snippet and cues
DraftInputs ==
  LET senders == FromStrings \cup {"42", "O'Brien, Pat"}
      subjects == { "Consulting inquiry", "Re: Consulting inquiry", "RE: pricing",
                    "re:demo", "Regarding a demo", "" }
      snippets == { "", "  We are interested in a retainer engagement, could we book a call?\n" }
      cues == { << >>, << "Lead qualification" >>,
                << "Lead qualification", "Response timeline: one business day" >> }
  IN  { [from |-> f, snippet |-> t, sopCues |-> c] @@ subject :
          f \in senders, t \in snippets, c \in cues,
          subject \in {<< >>} \cup {[subject |-> u] : u \in subjects} }

\* s.repeat(n)
RECURSIVE Repeat(_, _)
Repeat(s, n) ==
  IF n = 0 THEN ""
  ELSE Repeat(s, n \div 2) \o Repeat(s, n \div 2) \o (IF n % 2 = 1 THEN s ELSE "")

\* the messages handed to parseReceiptInfo, one of them with a number that is no
\* longer finite
ReceiptInputs ==
  LET subjects == { "Invoice #1029", "Receipt EUR 1,234.50", "" }
      snippets == { "Your payment of $240.00 has been charged", "Total: usd 99",
                    "xUSD 7 paid", "Paid £ 12.5 of GBP 40", "Refund of €3,000 (CAD4,500)",
                    "", "Charged $" \o Repeat("9", MaxFiniteDigits + 1) }
  IN  { [from |-> f, subject |-> u, snippet |-> t, received_at |-> NoTs, internal_ts |-> ms] :
          f \in FromStrings, u \in subjects, t \in snippets, ms \in {0, 3} }

NoSnapshot == << >>

\* the snapshots handed to pickSopCues: none, one without its sop field, and
\* those with or without sections and with or without blocks
SopInputs ==
  LET someSections ==
        { << >>,
          << [heading |-> "  ", items |-> << "" >>] >>,
          << [heading |-> "Lead qualification",
              items |-> << " Response timeline: one business day ", "Tone of voice",
                           "Lead qualification" >>] >>,
          << [heading |-> "Sponsor tiers",
              items |-> << "Pricing floor", "Timeline for replies", "Qualifying questions",
                           "Lead handoff" >>],
             [items |-> << "pricing exceptions", "Pricing floor", "LEAD scoring",
                           "Response windows" >>] >> }
      someBlocks ==
        { << >>,
          << [text |-> " Pricing guide "], << >>, [text |-> "Introduction"],
             [text |-> "Pricing guide"], [text |-> "Sponsorship deck"] >> }
  IN  { NoSnapshot, [degraded |-> TRUE] }
      \cup { [sop |-> sections @@ blocks] :
               sections \in {<< >>} \cup {[sections |-> x] : x \in someSections},
               blocks \in {<< >>} \cup {[blocks |-> x] : x \in someBlocks} }

InitBuilders ==
  /\ db = [t \in Tables |-> <<>>]
  /\ run = [p \in Procs |-> IdleRun]
  /\ clock = FirstNow
  /\ faults = 0
  /\ approvals = 0
  /\ last = NoLast
  /\ scope = "builders"
  /\ runsLeft = 0
  /\ probe \in
       { [fn |-> "buildSalesDraft", input |-> i, output |-> << >>, done |-> FALSE] :
           i \in DraftInputs }
       \cup { [fn |-> "parseReceiptInfo", input |-> i, output |-> << >>, done |-> FALSE] :
                i \in ReceiptInputs }
       \cup { [fn |-> "pickSopCues", input |-> i, output |-> << >>, done |-> FALSE] :
                i \in SopInputs }

\* const draft = buildSalesDraft({ senderDisplayName: senderName, ... })
BuildDraft ==
  /\ ~probe.done /\ probe.fn = "buildSalesDraft"
  /\ probe' = [probe EXCEPT
       !.output = buildSalesDraft([senderDisplayName |-> extractDisplayName(probe.input.from)]
                                  @@ probe.input),
       !.done = TRUE]
  /\ UNCHANGED <<db, run, clock, runsLeft, faults, approvals, scope, last>>

\* const parsed = parseReceiptInfo(message)
ParseReceipt ==
  /\ ~probe.done /\ probe.fn = "parseReceiptInfo"
  /\ probe' = [probe EXCEPT !.output = parseReceiptInfo(probe.input), !.done = TRUE]
  /\ UNCHANGED <<db, run, clock, runsLeft, faults, approvals, scope, last>>

\* const sopCues = pickSopCues(sop)
PickCues ==
  /\ ~probe.done /\ probe.fn = "pickSopCues"
  /\ probe' = [probe EXCEPT !.output = pickSopCues(probe.input), !.done = TRUE]
  /\ UNCHANGED <<db, run, clock, runsLeft, faults, approvals, scope, last>>

NextBuilders == BuildDraft \/ ParseReceipt \/ PickCues

SpecBuilders == InitBuilders /\ [][NextBuilders]_vars

\* ------------------------------------------------------------------- claims

\* the rows of a table that hold a value in a column
RowsWith(table, column, value) ==
  {k \in 1..Len(db[table]) : db[table][k][column] = value}

\* the rows of a table of a store that hold a value in a column
RowsIn(d, table, column, value) ==
  {k \in 1..Len(d[table]) : d[table][k][column] = value}

\* no two rows of a table hold the same value in a column
UniqueIn(table, column) ==
  \A j, k \in 1..Len(db[table]) : db[table][j][column] = db[table][k][column] => j = k

\* the stored status of the run record of a run
StoredStatus(r) ==
  {db[DEFAULT_JOB_RUNS_TABLE][k].status : k \in RowsWith(DEFAULT_JOB_RUNS_TABLE, "id", r.result.run_id)}

\* a run has left the loop over the messages
LoopLeft(r) == r.pc \in {"poll_state", "output", "done"}

\* every request of a run was answered with the stored row
AllAnswered(r) ==
  \A k \in 1..Len(r.log) : r.log[k].outcome \in {"ok", "posted"}

\* C1: a run that completes over the messages of the run that completed just
\* before it leaves the numbers of Activity, Draft and FinancialRecord rows as
\* they were when it started: it inserts none.
C1_RepeatedBatchInsertsNoRow ==
  \A p \in Procs :
    run[p].pc = "done" /\ run[p].repeat => RowCounts(db) = run[p].countsAtStart

\* a second run over a sales message and a receipt has completed
C1_Witness ==
  /\ run[1].pc = "done" /\ run[1].repeat
  /\ run[1].poll.messages = <<mSales, mReceipt>>
  /\ RowCounts(db) = [activities |-> 2, drafts |-> 1, accounting |-> 1]

\* C2: whatever the batches and however the requests of two runs interleave, the
\* store holds at most one Activity and one FinancialRecord per dedup key and
\* at most one Draft per Activity.
C2_OneRowPerKey ==
  /\ UniqueIn(DEFAULT_ACTIVITIES_TABLE, "source_key")
  /\ UniqueIn(DEFAULT_ACCOUNTING_TABLE, "source_key")
  /\ UniqueIn(DEFAULT_DRAFTS_TABLE, "activity_id")

\* two runs that both started on an empty store have both written the Activity
\* and the Draft of the same message, one of them twice in its batch
C2_Witness ==
  /\ run[1].countsAtStart.activities = 0 /\ run[2].countsAtStart.activities = 0
  /\ run[1].poll.messages = <<mSales, mSales>> /\ run[1].pc = "done"
  /\ run[2].poll.messages = <<mSales>> /\ run[2].pc = "done"
  /\ RowCounts(db) = [activities |-> 1, drafts |-> 1, accounting |-> 0]

\* a notification of the run was not posted
SomeSendFailed(r) ==
  \E k \in 1..Len(r.log) : r.log[k].op = "post" /\ r.log[k].outcome # "posted"

\* C3: a completed run ends partial_failure exactly when its batch carried the
\* partial-failure flag or one of its notifications was not posted, and ok
\* otherwise, in the result and in the stored run record alike.
C3_TerminalStatus ==
  \A p \in Procs :
    run[p].pc \in {"output", "done"} =>
      /\ run[p].result.status =
           IF run[p].poll.partial_failure \/ SomeSendFailed(run[p])
             THEN "partial_failure" ELSE "ok"
      /\ StoredStatus(run[p]) = {run[p].result.status}

\* a flagged batch with a sales message, every request of which succeeded
C3_Witness ==
  /\ run[1].pc = "done" /\ run[1].poll.partial_failure
  /\ AllAnswered(run[1])
  /\ run[1].result.totals.drafts_upserted = 1
  /\ run[1].result.status = "partial_failure"

\* the requests of a run to a table
RequestsTo(r, table) == {k \in 1..Len(r.log) : r.log[k].table = table}

\* C4: within one run the first request is the upsert of the run record, which
\* stays in status running while messages are processed and watermarks written;
\* the only other request to the run record is the last one, the patch to the
\* terminal status, made when every message is processed and every mailbox of
\* the batch has had its watermark upsert.
C4_RunRecordWrites ==
  \A p \in Procs :
    LET r == run[p]
        jobs == RequestsTo(r, DEFAULT_JOB_RUNS_TABLE)
    IN  /\ r.log # <<>> => 1 \in jobs /\ r.log[1].op = "upsert"
        /\ r.pc \in {"message", "activity", "draft", "patch", "slack", "accounting", "poll_state"}
             => jobs = {1} /\ StoredStatus(r) = {"running"}
        /\ \A k \in jobs \ {1} :
             /\ k = Len(r.log) /\ r.log[k].op = "patch"
             /\ r.result.totals.processed_messages = Len(r.poll.messages)
             /\ Cardinality(RequestsTo(r, DEFAULT_POLL_STATE_TABLE)) = Len(AccountSet(r.poll))
        /\ r.pc \in {"output", "done"} =>
             /\ Cardinality(jobs) = 2
             /\ StoredStatus(r) \subseteq {"ok", "partial_failure"}

\* a completed run over two messages of two mailboxes
C4_Witness ==
  /\ run[1].pc = "done"
  /\ run[1].poll.messages = <<mSales, mNoSender>>
  /\ Cardinality(RequestsTo(run[1], DEFAULT_POLL_STATE_TABLE)) = 2

\* C5 as stated: a run record that has reached ok or partial_failure keeps that
\* status in every later step.
C5_TerminalStatusIsFinal ==
  [][\A k \in 1..Len(db[DEFAULT_JOB_RUNS_TABLE]) :
       db[DEFAULT_JOB_RUNS_TABLE][k].status \in {"ok", "partial_failure"}
         => db'[DEFAULT_JOB_RUNS_TABLE][k].status = db[DEFAULT_JOB_RUNS_TABLE][k].status]_vars

\* the tables of the required writes of the loop
RequiredTables ==
  { DEFAULT_CONTACTS_TABLE, DEFAULT_ACTIVITIES_TABLE, DEFAULT_DRAFTS_TABLE,
    DEFAULT_ACCOUNTING_TABLE }

\* C6: when a Contact, Activity, Draft or FinancialRecord upsert fails, it is the
\* last request of the run: the run is aborted at that message, no later message
\* is processed, nothing is emitted, the run record is not patched and stays
\* in status running.
C6_FailedWriteAborts ==
  \A p \in Procs :
    \A k \in 1..Len(run[p].log) :
      LET r == run[p]
      IN  r.log[k].op = "upsert" /\ r.log[k].table \in RequiredTables
            /\ r.log[k].outcome = "error"
          => /\ k = Len(r.log) /\ r.pc = "aborted"
             /\ r.result.totals.processed_messages = r.i - 1
             /\ RequestsTo(r, DEFAULT_JOB_RUNS_TABLE) = {1}
             /\ StoredStatus(r) = {"running"}
             /\ r.emitted = 0

\* the Activity upsert of the second message failed after the first was processed
C6_Witness ==
  /\ run[1].pc = "aborted" /\ run[1].i = 2
  /\ Len(run[1].poll.messages) = 3
  /\ run[1].log[Len(run[1].log)] = Request("upsert", DEFAULT_ACTIVITIES_TABLE, "error")
  /\ run[1].result.totals.processed_messages = 1

\* C7 as stated: a Contact, Activity or Draft upsert that returns no row with an
\* id is the last request of the run, which is aborted.
C7_MissingIdAborts ==
  \A p \in Procs :
    \A k \in 1..Len(run[p].log) :
      run[p].log[k].op = "upsert" /\ run[p].log[k].outcome = "norep"
        /\ run[p].log[k].table \in {DEFAULT_CONTACTS_TABLE, DEFAULT_ACTIVITIES_TABLE, DEFAULT_DRAFTS_TABLE}
      => k = Len(run[p].log) /\ run[p].pc = "aborted"

\* C8 as stated: no step lowers the stored last-seen instant of a Contact.
C8_LastSeenNeverDecreases ==
  [][\A k \in 1..Len(db[DEFAULT_CONTACTS_TABLE]) :
       DateParse(db'[DEFAULT_CONTACTS_TABLE][k].last_seen_at)
         >= DateParse(db[DEFAULT_CONTACTS_TABLE][k].last_seen_at)]_vars

\* C9 as stated: no step of the orchestrator changes the status of a Draft that
\* the approval action has set to approved, revised or rejected.
C9_OrchestratorKeepsDraftStatus ==
  [][\A k \in 1..Len(db[DEFAULT_DRAFTS_TABLE]) :
       db[DEFAULT_DRAFTS_TABLE][k].status \in ApprovalStatuses /\ run' # run
         => db'[DEFAULT_DRAFTS_TABLE][k].status = db[DEFAULT_DRAFTS_TABLE][k].status]_vars

\* the instants of the timestamps the messages of a mailbox carry
InstantsOf(messages, account) ==
  {DateParse(messageTs(messages[k])) :
     k \in {j \in 1..Len(messages) : messages[j].account_email = account}}

Maximum(S) == CHOOSE x \in S : \A y \in S : y <= x

\* C10: when the loop is left, the candidate watermark of every mailbox denotes
\* the latest instant among the timestamps of that mailbox's messages in the
\* batch (and is undefined when none carries one), in whatever order they came.
C10_WatermarkIsMaximum ==
  \A p \in Procs :
    LoopLeft(run[p]) =>
      \A a \in Mailboxes :
        DateParse(run[p].maxTsByAccount[a])
          = Maximum(InstantsOf(run[p].poll.messages, a) \cup {DateParse(NoTs)})

\* the timestamps of one mailbox came in the order T1, T3, T2
C10_Witness ==
  /\ run[1].pc = "done"
  /\ run[1].poll.messages = <<mSupport, mJobAlert, mSales>>
  /\ run[1].maxTsByAccount[InfoBox] = Ts(3, "Z")

\* the mailboxes a batch shows: those of its messages and of its per-mailbox summaries
Observed(poll) ==
  ({poll.messages[k].account_email : k \in 1..Len(poll.messages)}
     \cup {poll.per_account[k] : k \in 1..Len(poll.per_account)}) \ {""}

\* the stored watermark rows of a mailbox
WatermarkRows(d, account) == RowsIn(d, DEFAULT_POLL_STATE_TABLE, "account_email", account)

\* the mailboxes whose watermark upsert a run has had answered
Marked(r) ==
  {r.result.poll_state_updates[k].account_email : k \in 1..Len(r.result.poll_state_updates)}

\* the watermark upserts of a run come after its last message, one per mailbox of
\* the batch and none for another mailbox
C11_OnePerObservedMailbox ==
  \A p \in Procs :
    LET r == run[p]
        marks == RequestsTo(r, DEFAULT_POLL_STATE_TABLE)
    IN  /\ marks # {} => r.result.totals.processed_messages = Len(r.poll.messages)
        /\ \A k \in marks : \A j \in k..Len(r.log) :
             r.log[j].table \in {DEFAULT_POLL_STATE_TABLE, DEFAULT_JOB_RUNS_TABLE}
        /\ Marked(r) \subseteq Observed(r.poll)
        /\ Cardinality(Marked(r)) = Len(r.result.poll_state_updates)
        /\ Len(r.result.poll_state_updates) =
             Cardinality({k \in marks : r.log[k].outcome = "ok"})
        /\ r.pc \in {"output", "done"} =>
             Marked(r) = Observed(r.poll) /\ Cardinality(marks) = Cardinality(Observed(r.poll))

\* an answered watermark upsert leaves one row for its mailbox, holding the
\* candidate watermark of the run, or, when the run has none for the mailbox, what
\* the store held before (nothing, for a new row)
C11_CarriesCandidate ==
  \A p \in Procs :
    LET before == run[p].result.poll_state_updates
        after == run'[p].result.poll_state_updates
    IN  Len(after) = Len(before) + 1 =>
          LET account == after[Len(after)].account_email
              candidate == run[p].maxTsByAccount[account]
              old == WatermarkRows(db, account)
              new == WatermarkRows(db', account)
          IN  /\ Cardinality(new) = 1
              /\ \A k \in new :
                   db'[DEFAULT_POLL_STATE_TABLE][k].last_message_ts =
                     IF candidate # NoTs THEN candidate
                     ELSE IF k \in old THEN db[DEFAULT_POLL_STATE_TABLE][k].last_message_ts
                     ELSE NoTs

\* C11: in a completed run every mailbox of a message or of a per-mailbox summary
\* of the batch gets exactly one watermark upsert, made after the last message is
\* processed, which carries the run's candidate watermark of the mailbox and no
\* last-seen-message value when the run has none; no other mailbox gets one.
C11_WatermarkUpserts == [](C11_OnePerObservedMailbox) /\ [][C11_CarriesCandidate]_vars

\* a run over an undated message of a mailbox whose watermark an earlier run wrote
\* has completed, with a per-mailbox summary of another mailbox
C11_Witness ==
  /\ run[1].pc = "done" /\ run[1].poll.messages = <<mUndated>>
  /\ run[1].poll.per_account = <<PatBox>>
  /\ run[1].maxTsByAccount[InfoBox] = NoTs
  /\ \E k \in WatermarkRows(db, InfoBox) :
       db[DEFAULT_POLL_STATE_TABLE][k].last_message_ts = Ts(2, "Z")
  /\ WatermarkRows(db, PatBox) # {} /\ WatermarkRows(db, UgoBox) = {}

\* C12 as stated: no step moves the stored last-seen-message watermark of a mailbox
\* to an earlier instant.
C12_StoredWatermarkNeverDecreases ==
  [][\A k \in 1..Len(db[DEFAULT_POLL_STATE_TABLE]) :
       DateParse(db'[DEFAULT_POLL_STATE_TABLE][k].last_message_ts)
         >= DateParse(db[DEFAULT_POLL_STATE_TABLE][k].last_message_ts)]_vars

\* the notifications of a run that were not posted
FailedSends(r) == {k \in 1..Len(r.log) : r.log[k].op = "post" /\ r.log[k].outcome # "posted"}

\* the drafts a run reports as not notified, with an error
NotNotified(r) ==
  {k \in 1..Len(r.result.sales_drafts) :
     ~r.result.sales_drafts[k].slack_posted /\ r.result.sales_drafts[k].slack_error # ""}

\* C13 as stated: every notification that was not posted, for want of credentials,
\* by an error answer or by the send throwing, is reported as the outcome of its
\* draft (not notified, with an error), and the run is not aborted by it.
C13_SendFailureIsNotFatal ==
  \A p \in Procs :
    /\ Cardinality(FailedSends(run[p])) = Cardinality(NotNotified(run[p]))
    /\ \A k \in FailedSends(run[p]) : ~(run[p].pc = "aborted" /\ k = Len(run[p].log))

\* C14 as stated: a run that finds no persistence URL or key, a malformed poll file
\* or a malformed snapshot file is aborted before its first request.
C14_BadEnvironmentIsFatal ==
  \A p \in Procs : run[p].env # "ok" => run[p].pc = "aborted" /\ run[p].log = <<>>

\* C15 as stated: a run whose snapshot is missing or marked degraded, once its run
\* record is written, has a warning in its warning list and its degraded flag set,
\* in the result and in the run record, whose patch carries the warnings.
C15_DegradedSnapshotIsFlagged ==
  \A p \in Procs :
    LET r == run[p]
    IN  r.log # <<>> /\ r.log[1].outcome = "ok" /\ (~r.sop.present \/ r.sop.degraded) =>
          /\ r.result.degraded /\ r.result.warnings # <<>>
          /\ \A k \in RowsWith(DEFAULT_JOB_RUNS_TABLE, "id", r.result.run_id) :
               /\ db[DEFAULT_JOB_RUNS_TABLE][k].degraded
               /\ r.pc \in {"output", "done"} => db[DEFAULT_JOB_RUNS_TABLE][k].warnings # <<>>

\* C16 as stated: a run that has ended, completed or aborted, has emitted its
\* result document exactly once, and no run emits it twice.
C16_OneResultDocument ==
  \A p \in Procs :
    /\ run[p].emitted <= 1
    /\ run[p].pc \in {"done", "aborted"} => run[p].emitted = 1

\* the gate of the classifier takes the message: a non-human or hiring signal and
\* no direct-inquiry phrase
GateTakes(message) ==
  (LikelyNonHumanSender(message) \/ LooksHiring(message)) /\ ~HasDirectInquiry(message)

\* C17: a message with an automated signal in its sender or text, a sender of a
\* job-network or vendor-system domain, or a hiring signal in its text, and no
\* direct-inquiry phrase, is classified ignore with confidence 0.94 and the one
\* reason non-business-automation-filter, whatever keywords its text holds.
C17_GateTakesPrecedence ==
  probe.done /\ GateTakes(probe.message) =>
    probe.classification =
      [label |-> "ignore", confidence |-> 94, reasons |-> <<"non-business-automation-filter">>]

\* a job alert of a job network whose text also holds a sales and a receipt keyword
C17_Witness ==
  /\ probe.done /\ probe.message.from = "jobalerts@linkedin.com"
  /\ probe.message.subject = {"job alert", "demo", "invoice"}
  /\ probe.classification.label = "ignore" /\ probe.classification.confidence = 94

\* receipt and sales keywords, the receipt ones no fewer
ReceiptOutweighsSales(message) ==
  /\ ReceiptScore(message) > 0 /\ SalesScore(message) > 0
  /\ ReceiptScore(message) >= SalesScore(message)

\* C18 as stated: every message with receipt and sales keywords, the receipt ones no
\* fewer, is labeled receipt.
C18_ReceiptBeforeSales ==
  probe.done /\ ReceiptOutweighsSales(probe.message) => probe.classification.label = "receipt"

\* C18, amended: every message the gate does not take, with receipt and sales
\* keywords, the receipt ones no fewer, is labeled receipt.
C18_ReceiptBeforeSalesPastGate ==
  probe.done /\ ~GateTakes(probe.message) /\ ReceiptOutweighsSales(probe.message) =>
    probe.classification.label = "receipt"

\* an automated sender with a direct inquiry, one receipt and one sales keyword
C18_Witness ==
  /\ probe.done /\ probe.message.from = "no-reply@saas.io"
  /\ probe.message.subject = {"invoice", "pricing"}
  /\ probe.classification.label = "receipt"

\* the conditions of the label sales: a direct-inquiry phrase, and no automated,
\* job-network, vendor-system or hiring signal
HumanDirectInquiry(message) ==
  HasDirectInquiry(message) /\ ~LikelyNonHumanSender(message) /\ ~LooksHiring(message)

\* the message comes to the sales rule: a sales keyword, and neither the gate nor
\* the receipt rule takes it
ReachesSalesRule(message) ==
  /\ SalesScore(message) > 0
  /\ ~GateTakes(message)
  /\ ~(ReceiptScore(message) > 0 /\ ReceiptScore(message) >= SalesScore(message))

\* C19: a message is labeled sales only with a direct-inquiry phrase and without an
\* automated, job-network, vendor-system or hiring signal; a message that comes to
\* the sales rule without both is classified ignore with confidence 0.90 and the
\* reason sales-needs-human-direct-inquiry, as is a no-reply sender whose text
\* mentions pricing and demo.
C19_SalesNeedsHumanDirectInquiry ==
  probe.done =>
    /\ probe.classification.label = "sales" => HumanDirectInquiry(probe.message)
    /\ ReachesSalesRule(probe.message) /\ ~HumanDirectInquiry(probe.message) =>
         probe.classification =
           [label |-> "ignore", confidence |-> 90,
            reasons |-> <<"sales-needs-human-direct-inquiry">>]
    /\ probe.message.from = "no-reply@saas.io"
         /\ {"pricing", "demo"} \subseteq probe.message.subject
         /\ ReachesSalesRule(probe.message) =>
           probe.classification.reasons = <<"sales-needs-human-direct-inquiry">>

\* a no-reply sender whose text mentions pricing and demo
C19_Witness ==
  /\ probe.done /\ probe.message.from = "no-reply@saas.io"
  /\ probe.message.subject = {"pricing", "demo"}
  /\ probe.classification.label = "ignore" /\ probe.classification.confidence = 90

\* the number of requests of a kind a run has made to a table
Issued(r, op, table) ==
  Cardinality({k \in 1..Len(r.log) : r.log[k].op = op /\ r.log[k].table = table})

\* the messages among the first n of the batch of a run that carry one of the
\* labels and, where asked for, a sender address
Carrying(r, n, labels, withSender) ==
  {j \in 1..n :
     /\ Classification[r.poll.messages[j]].label \in labels
     /\ withSender => extractEmailAddress(r.poll.messages[j].from) # ""}

Labels == {"receipt", "sales", "support", "ignore"}

\* C20: between two messages and after the last, a run has issued one Activity
\* upsert per message processed, one Draft upsert and one notification per sales
\* message, one FinancialRecord upsert per receipt message and one Contact upsert
\* per sales or support message with a sender address; and at no point, an aborted
\* run included, has it issued more than that for the messages it has come to.
C20_RequestsFollowLabel ==
  \A p \in Procs :
    LET r == run[p]
        processed == r.i - 1
        begun == Min(r.i, Len(r.poll.messages))
        activities == Issued(r, "upsert", DEFAULT_ACTIVITIES_TABLE)
        drafts == Issued(r, "upsert", DEFAULT_DRAFTS_TABLE)
        sends == Issued(r, "post", "slack")
        records == Issued(r, "upsert", DEFAULT_ACCOUNTING_TABLE)
        contacts == Issued(r, "upsert", DEFAULT_CONTACTS_TABLE)
    IN  /\ r.pc \in {"message", "poll_state", "output", "done"} =>
             /\ activities = processed
             /\ drafts = Cardinality(Carrying(r, processed, {"sales"}, FALSE))
             /\ sends = drafts
             /\ records = Cardinality(Carrying(r, processed, {"receipt"}, FALSE))
             /\ contacts = Cardinality(Carrying(r, processed, {"sales", "support"}, TRUE))
        /\ activities <= Cardinality(Carrying(r, begun, Labels, FALSE))
        /\ drafts <= Cardinality(Carrying(r, begun, {"sales"}, FALSE))
        /\ sends <= drafts
        /\ records <= Cardinality(Carrying(r, begun, {"receipt"}, FALSE))
        /\ contacts <= Cardinality(Carrying(r, begun, {"sales", "support"}, TRUE))

\* a completed run over a sales message with no sender address, a support message
\* and a receipt
C20_Witness ==
  /\ run[1].pc = "done" /\ run[1].poll.messages = <<mNoSender, mSupport, mReceipt>>
  /\ Issued(run[1], "upsert", DEFAULT_ACTIVITIES_TABLE) = 3
  /\ Issued(run[1], "upsert", DEFAULT_CONTACTS_TABLE) = 1
  /\ Issued(run[1], "upsert", DEFAULT_DRAFTS_TABLE) = 1
  /\ Issued(run[1], "upsert", DEFAULT_ACCOUNTING_TABLE) = 1

\* the classification the rules past the gate give, in their order
ByPriority(message) ==
  IF ReceiptScore(message) > 0 /\ ReceiptScore(message) >= SalesScore(message)
    THEN <<"receipt", "matched-receipt-signals">>
  ELSE IF SalesScore(message) > 0
    THEN IF HumanDirectInquiry(message) THEN <<"sales", "matched-sales-signals">>
         ELSE <<"ignore", "sales-needs-human-direct-inquiry">>
  ELSE IF SupportScore(message) > 0 THEN <<"support", "matched-support-signals">>
  ELSE IF IgnoreScore(message) > 0 THEN <<"ignore", "matched-ignore-signals">>
  ELSE <<"ignore", "no-strong-signal">>

\* C21: a message the gate does not take gets the label and the reason of the first
\* rule that applies, in the order receipt, sales, support, ignore lexicon, no
\* strong signal; and every classification carries one of the four labels and at
\* least one reason.
C21_FixedPriorityOrder ==
  probe.done =>
    /\ probe.classification.label \in Labels
    /\ Len(probe.classification.reasons) >= 1
    /\ ~GateTakes(probe.message) =>
         /\ probe.classification.label = ByPriority(probe.message)[1]
         /\ probe.classification.reasons = <<ByPriority(probe.message)[2]>>

\* a person's message with a support and an ignore keyword: support
C21_Witness ==
  /\ probe.done /\ probe.message.from = "Jane Doe <jane@acmeco.com>"
  /\ probe.message.subject = {"issue", "promo"}
  /\ probe.classification.label = "support"

\* the confidence of the rule a reason stands for, in hundredths
RuleConfidence(message, reason) ==
  CASE reason = "non-business-automation-filter" -> 94
    [] reason = "matched-receipt-signals" -> Min(65 + 8 * ReceiptScore(message), 96)
    [] reason = "sales-needs-human-direct-inquiry" -> 90
    [] reason = "matched-sales-signals" -> Min(62 + 7 * SalesScore(message), 95)
    [] reason = "matched-support-signals" -> Min(58 + 8 * SupportScore(message), 90)
    [] reason = "matched-ignore-signals" -> Min(60 + 8 * IgnoreScore(message), 92)
    [] reason = "no-strong-signal" -> 52

\* the cap of the confidence of a label, in hundredths
Cap(label) ==
  CASE label = "receipt" -> 96 [] label = "sales" -> 95 [] label = "support" -> 90
    [] label = "ignore" -> 94

\* C22: the confidence of every classification lies between 0 and 1 and is the
\* value of the rule that decided it, never above the cap of the rule however many
\* keywords hit; the confidence of a sales label is at least 0.62.
C22_ConfidenceOfRule ==
  probe.done =>
    /\ probe.classification.confidence \in 0..100
    /\ probe.classification.confidence =
         RuleConfidence(probe.message, probe.classification.reasons[1])
    /\ probe.classification.confidence <= Cap(probe.classification.label)
    /\ probe.classification.label = "sales" => probe.classification.confidence >= 62

\* a receipt with six receipt keywords, at the cap of its rule
C22_Witness ==
  /\ probe.done /\ ReceiptScore(probe.message) = 6
  /\ probe.classification.label = "receipt" /\ probe.classification.confidence = 96

\* the external calls of one message, in their order, by its label and sender
CallsOf(message) ==
  (IF Classification[message].label \in {"sales", "support"}
        /\ extractEmailAddress(message.from) # ""
     THEN << <<"upsert", DEFAULT_CONTACTS_TABLE>> >> ELSE << >>)
  \o << <<"upsert", DEFAULT_ACTIVITIES_TABLE>> >>
  \o (CASE Classification[message].label = "sales" ->
              << <<"upsert", DEFAULT_DRAFTS_TABLE>>, <<"patch", DEFAULT_DRAFTS_TABLE>>,
                 <<"post", "slack">> >>
         [] Classification[message].label = "receipt" ->
              << <<"upsert", DEFAULT_ACCOUNTING_TABLE>> >>
         [] OTHER -> << >>)

\* the external calls of a batch: those of its messages, one message after the other
RECURSIVE CallsOfBatch(_)
CallsOfBatch(messages) ==
  IF messages = << >> THEN << >> ELSE CallsOf(Head(messages)) \o CallsOfBatch(Tail(messages))

\* the calls a run has made in its loop, in the order it made them
LoopCalls(r) ==
  LET inLoop(request) ==
        request.table \notin {DEFAULT_JOB_RUNS_TABLE, DEFAULT_POLL_STATE_TABLE}
      kept == SelectSeq(r.log, inLoop)
  IN  [k \in 1..Len(kept) |-> <<kept[k].op, kept[k].table>>]

IsPrefix(s, t) == Len(s) <= Len(t) /\ \A k \in 1..Len(s) : s[k] = t[k]

\* the ids of the rows of a table
IdsIn(table) == {db[table][k].id : k \in 1..Len(db[table])}

\* C23: the calls of the loop of a run are, at every point, the beginning of the
\* calls of its batch taken message by message in batch order (Contact if any,
\* Activity, then Draft upsert, Draft patch and notification for sales, or the
\* FinancialRecord upsert for a receipt), and all of them once the loop is left;
\* no call follows one that failed; every stored Draft and FinancialRecord refers
\* to a stored Activity, and every notification sent names a stored Draft.
C23_CallsInOrder ==
  /\ \A p \in Procs :
       LET r == run[p]
       IN  /\ IsPrefix(LoopCalls(r), CallsOfBatch(r.poll.messages))
           /\ LoopLeft(r) => LoopCalls(r) = CallsOfBatch(r.poll.messages)
           /\ \A k \in 1..(Len(r.log) - 1) :
                /\ r.log[k].outcome \notin {"error", "throw"}
                /\ r.log[k].outcome = "norep" => r.log[k].table = DEFAULT_CONTACTS_TABLE
           /\ \A k \in 1..Len(r.result.sales_drafts) :
                r.result.sales_drafts[k].draft_id \in IdsIn(DEFAULT_DRAFTS_TABLE)
           /\ r.pc = "slack" => r.draftId \in IdsIn(DEFAULT_DRAFTS_TABLE)
  /\ \A k \in 1..Len(db[DEFAULT_DRAFTS_TABLE]) :
       db[DEFAULT_DRAFTS_TABLE][k].activity_id \in IdsIn(DEFAULT_ACTIVITIES_TABLE)
  /\ \A k \in 1..Len(db[DEFAULT_ACCOUNTING_TABLE]) :
       db[DEFAULT_ACCOUNTING_TABLE][k].activity_id \in IdsIn(DEFAULT_ACTIVITIES_TABLE)

\* a completed run over a sales message, a receipt and a support message
C23_Witness ==
  /\ run[1].pc = "done" /\ run[1].poll.messages = <<mSales, mReceipt, mSupport>>
  /\ Len(LoopCalls(run[1])) = 9

\* a string starts with the reply marker, in any letter case
HasReplyMarker(s) ==
  /\ Len(s) >= 3
  /\ CharAt(s, 1) \in {"r", "R"} /\ CharAt(s, 2) \in {"e", "E"} /\ CharAt(s, 3) = ":"

NameChars == Chars(UpperCaseLetters) \cup Chars(LowerCaseLetters) \cup {"-"}

\* the first unbroken run of letters and hyphens of a display name, "" without one
FirstNameRun(display) ==
  LET starts == {k \in 1..Len(display) : CharAt(display, k) \in NameChars}
  IN  IF starts = {} THEN ""
      ELSE LET a == CHOOSE k \in starts : \A j \in starts : k <= j
               ends == {k \in a..Len(display) :
                          \A j \in a..k : CharAt(display, j) \in NameChars}
           IN  SubSeq(display, a, CHOOSE k \in ends : \A j \in ends : j <= k)

endsWith(s, suffix) ==
  Len(s) >= Len(suffix) /\ SubSeq(s, Len(s) - Len(suffix) + 1, Len(s)) = suffix

\* the cues, one bullet a line
RECURSIVE Bullets(_)
Bullets(cues) ==
  IF cues = << >> THEN "" ELSE "\n- " \o Head(cues) \o Bullets(Tail(cues))

\* C24: the draft subject is the input subject with "Re: " before it unless the
\* input already starts with "re:" in any letter case, and the subject rule leaves
\* its own output as it is; the body opens by greeting the first name parsed from
\* the sender, or "there" when the sender yields none, and closes with the cues,
\* one bullet each, or with the two default bullets when there are no cues.
C24_DraftSubjectAndBody ==
  (probe.done /\ probe.fn = "buildSalesDraft") =>
    LET args == probe.input
        draft == probe.output
        name == FirstNameRun(extractDisplayName(args.from))
    IN  /\ "subject" \in DOMAIN args =>
             draft.subject = IF HasReplyMarker(args.subject) THEN args.subject
                             ELSE "Re: " \o args.subject
        /\ DraftSubject([subject |-> draft.subject]) = draft.subject
        /\ startsWith(draft.body, "Hi " \o (IF name = "" THEN "there" ELSE name) \o ",\n")
        /\ endsWith(draft.body,
                    "\n[SOP cues used for this draft]"
                    \o (IF args.sopCues = << >>
                          THEN "\n- Confirm fit and desired outcome\n- Provide next-step CTA"
                          ELSE Bullets(args.sopCues)))

\* the example of the sales inquiry of Jane Doe
C24_Witness ==
  /\ probe.done /\ probe.fn = "buildSalesDraft"
  /\ probe.input.from = "Jane Doe <jane@acmeco.com>"
  /\ "subject" \in DOMAIN probe.input /\ probe.input.subject = "Consulting inquiry"
  /\ probe.output.subject = "Re: Consulting inquiry"
  /\ startsWith(probe.output.body, "Hi Jane,\n")

\* the places of a text where one of some leads stands before a number, white
\* space at most between them; a lead of letters starts a word
NumbersLedBy(text, leads, width) ==
  {k \in 1..Len(text) :
     /\ toUpperCaseString(Slice(text, k, k + width - 1)) \in leads
     /\ width > 1 => (k = 1 \/ CharAt(text, k - 1) \notin WordChars)
     /\ \E j \in (k + width)..Len(text) :
          /\ CharAt(text, j) \in Chars(DecimalDigits)
          /\ \A i \in (k + width)..(j - 1) : IsSpace(CharAt(text, i))}

\* the amount written after the lead at place k
AmountAfter(text, k, width) == parseFloat(NumberToken(trimStart(DropTo(text, k + width))))

First(S) == CHOOSE k \in S : \A j \in S : k <= j

\* C25: the vendor is the local-part of the sender address, else the display
\* name; amount and currency come from the first number led by $, € or £ (USD,
\* EUR, GBP) when the text has one, only otherwise from the first number led by a
\* currency code, and both are unset when the text has neither: amount is set
\* exactly when currency is set.
C25_ReceiptFields ==
  (probe.done /\ probe.fn = "parseReceiptInfo") =>
    LET message == probe.input
        parsed == probe.output
        text == message.subject \o " " \o message.snippet
        bySymbol == NumbersLedBy(text, {"$", "€", "£"}, 1)
        byCode == NumbersLedBy(text, CurrencyCodes, 3)
        local == LocalPart(extractEmailAddress(message.from))
        name == extractDisplayName(message.from)
    IN  /\ "amount" \in DOMAIN parsed <=> "currency" \in DOMAIN parsed
        /\ bySymbol # {} =>
             /\ "currency" \in DOMAIN parsed
             /\ parsed.currency = (CASE CharAt(text, First(bySymbol)) = "$" -> "USD"
                                     [] CharAt(text, First(bySymbol)) = "€" -> "EUR"
                                     [] CharAt(text, First(bySymbol)) = "£" -> "GBP")
             /\ "amount" \in DOMAIN parsed
             /\ parsed.amount = AmountAfter(text, First(bySymbol), 1)
        /\ (bySymbol = {} /\ byCode # {}) =>
             /\ "currency" \in DOMAIN parsed
             /\ parsed.currency =
                  toUpperCaseString(SubSeq(text, First(byCode), First(byCode) + 2))
             /\ "amount" \in DOMAIN parsed
             /\ parsed.amount = AmountAfter(text, First(byCode), 3)
        /\ (bySymbol = {} /\ byCode = {}) => "currency" \notin DOMAIN parsed
        /\ local # "" => ("vendor" \in DOMAIN parsed /\ parsed.vendor = local)
        /\ (local = "" /\ name # "") => ("vendor" \in DOMAIN parsed /\ parsed.vendor = name)
        /\ (local = "" /\ name = "") => "vendor" \notin DOMAIN parsed

\* the same, for the numbers that are finite
C25_ReceiptFieldsOfFiniteNumbers ==
  (/\ probe.done /\ probe.fn = "parseReceiptInfo"
   /\ probe.input.snippet # "Charged $" \o Repeat("9", MaxFiniteDigits + 1))
    => C25_ReceiptFields

\* the example of the charged payment of 240.00 dollars, and, with it, a text
\* that names a code before its first symbol
C25_ExampleParsed ==
  /\ probe.done /\ probe.fn = "parseReceiptInfo"
  /\ probe.input.from = "billing@vendor.com"
  /\ probe.input.subject = "Receipt EUR 1,234.50"
  /\ probe.input.snippet = "Your payment of $240.00 has been charged"
  /\ probe.output.vendor = "billing"
  /\ probe.output.amount = 24000 /\ probe.output.currency = "USD"

\* a number past the finite ones: the currency is set and the amount is not
C25_CurrencyWithoutAmount ==
  /\ probe.done /\ probe.fn = "parseReceiptInfo"
  /\ "currency" \in DOMAIN probe.output /\ "amount" \notin DOMAIN probe.output

\* the entries of a sequence
Range(q) == {q[k] : k \in 1..Len(q)}

\* the place where a line comes first in a sequence of lines
FirstPlace(lines, line) == First({k \in 1..Len(lines) : lines[k] = line})

\* what the cues have in common wherever they are read: at most 6 of them, no
\* two alike, each a line of the source, in the order in which the source has
\* them first, none of the source's lines passed over while there is room
CuesInOrder(cues, source, keep(_)) ==
  /\ Len(cues) <= 6
  /\ \A k \in 1..Len(cues) : cues[k] \in Range(source) /\ keep(cues[k])
  /\ \A j, k \in 1..Len(cues) : j < k =>
       /\ cues[j] # cues[k]
       /\ FirstPlace(source, cues[j]) < FirstPlace(source, cues[k])
  /\ \A k \in 1..Len(source) :
       (keep(source[k]) /\ source[k] \notin Range(cues)) =>
         /\ Len(cues) = 6
         /\ FirstPlace(source, cues[6]) < k

\* a line holds one of the relevance keywords as the specification lists them
HoldsKeyword(line) ==
  \E word \in {"qualification", "response", "lead", "sponsorship", "timeline", "pricing"} :
    Contains(toLowerCaseString(line), word)

\* C26, as stated: the cues are at most 6, without duplicates, in source order,
\* each holding one of the relevance keywords; they are none when the snapshot
\* is absent; and the blocks are read only when the snapshot has no sections.
C26_CuesAsStated ==
  (probe.done /\ probe.fn = "pickSopCues") =>
    LET sop == probe.input
        cues == probe.output
        source == IF SectionsOf(sop) = << >> THEN BlockLines(BlocksOf(sop))
                  ELSE SectionLines(SectionsOf(sop))
    IN  /\ CuesInOrder(cues, source, HoldsKeyword)
        /\ sop = NoSnapshot => cues = << >>

\* C26, amended: the cues are at most 6, without duplicates, in source order,
\* each holding, in any letter case, one of the stems qualif, response, lead,
\* sponsor, timeline, pricing; they are none when the snapshot is absent; and the
\* blocks are read only when the sections gave no line: when the snapshot has no
\* sections, or none of them has a heading or an item that is not blank.
C26_CuesOfLinesFound ==
  (probe.done /\ probe.fn = "pickSopCues") =>
    LET sop == probe.input
        cues == probe.output
        ofSections == SectionLines(SectionsOf(sop))
        source == IF ofSections = << >> THEN BlockLines(BlocksOf(sop)) ELSE ofSections
    IN  /\ CuesInOrder(cues, source, IsUseful)
        /\ sop = NoSnapshot => cues = << >>

\* eight lines of two sections hold a stem, and the first six are the cues; the
\* blocks, which hold two more, are not read
C26_Witness ==
  /\ probe.done /\ probe.fn = "pickSopCues"
  /\ "sop" \in DOMAIN probe.input /\ "blocks" \in DOMAIN probe.input.sop
  /\ probe.input.sop.blocks # << >>
  /\ probe.output = << "Sponsor tiers", "Pricing floor", "Timeline for replies",
                       "Qualifying questions", "Lead handoff", "pricing exceptions" >>

\* a request of the loop of a run that ended the processing of its message: a
\* failed request to the store, an Activity or Draft upsert answered without an
\* id, or a notification whose send threw
FailedInLoop(r) ==
  {k \in 1..Len(r.log) :
     \/ /\ r.log[k].table \in RequiredTables
        /\ \/ r.log[k].outcome = "error"
           \/ /\ r.log[k].outcome = "norep"
              /\ r.log[k].table \in {DEFAULT_ACTIVITIES_TABLE, DEFAULT_DRAFTS_TABLE}
     \/ r.log[k].op = "post" /\ r.log[k].outcome = "throw"}

\* a run whose processing of a message failed is aborted and has made no
\* watermark upsert; a run that has made one has processed every message
C27_NoneAfterFailure ==
  \A p \in Procs :
    LET r == run[p]
    IN  /\ FailedInLoop(r) # {} =>
             /\ r.pc = "aborted"
             /\ RequestsTo(r, DEFAULT_POLL_STATE_TABLE) = {}
             /\ r.result.poll_state_updates = << >>
        /\ RequestsTo(r, DEFAULT_POLL_STATE_TABLE) # {} =>
             /\ r.result.totals.processed_messages = Len(r.poll.messages)
             /\ r.i = Len(r.poll.messages) + 1

\* the stored watermarks change only by a step of a run that has left its loop
\* with no message failed
C27_StoredOnlyPastLoop ==
  db'[DEFAULT_POLL_STATE_TABLE] # db[DEFAULT_POLL_STATE_TABLE] =>
    \E p \in Procs : run[p].pc = "poll_state" /\ FailedInLoop(run[p]) = {}

\* C27: a run that aborts while its messages are processed writes no watermark:
\* watermark upserts are made only when every message of the batch has been
\* processed without error, and the stored watermarks are changed by no step of a
\* run in which the processing of a message failed.
C27_NoWatermarkFromFailedRun == [](C27_NoneAfterFailure) /\ [][C27_StoredOnlyPastLoop]_vars

\* a run is aborted at its first message, the watermark of the mailbox being as
\* the run before it stored it
C27_Witness ==
  /\ run[1].pc = "aborted" /\ FailedInLoop(run[1]) # {}
  /\ run[1].i = 1 /\ run[1].poll.messages # << >>
  /\ \E k \in WatermarkRows(db, InfoBox) :
       db[DEFAULT_POLL_STATE_TABLE][k].last_message_ts = Ts(2, "Z")

\* how many messages of a batch carry a label
Labelled(messages, label) ==
  Cardinality({k \in 1..Len(messages) : Classification[messages[k]].label = label})

\* C28: at every point of a run processed_messages <= activities_upserted <=
\* polled_messages; once the loop is left, processed_messages, polled_messages,
\* activities_upserted and the sum of the four classification counts are all the
\* number of messages of the batch, drafts_upserted is the sales count and the
\* number of sales_drafts entries, and accounting_entries_upserted is the receipt
\* count and the number of accounting_entries entries; the totals are the numbers
\* of upsert calls made, whatever the number of rows they left.
C28_TotalsAgree ==
  \A p \in Procs :
    LET r == run[p]
        totals == r.result.totals
        counts == r.result.classification_counts
    IN  /\ totals.processed_messages <= totals.activities_upserted
        /\ totals.activities_upserted <= totals.polled_messages
        /\ LoopLeft(r) =>
             /\ totals.polled_messages = Len(r.poll.messages)
             /\ totals.processed_messages = totals.polled_messages
             /\ totals.activities_upserted = totals.polled_messages
             /\ counts.receipt + counts.sales + counts.support + counts.ignore
                  = totals.polled_messages
             /\ \A label \in Labels : counts[label] = Labelled(r.poll.messages, label)
             /\ totals.drafts_upserted = counts.sales
             /\ Len(r.result.sales_drafts) = counts.sales
             /\ totals.accounting_entries_upserted = counts.receipt
             /\ Len(r.result.accounting_entries) = counts.receipt
             /\ totals.activities_upserted = Issued(r, "upsert", DEFAULT_ACTIVITIES_TABLE)
             /\ totals.drafts_upserted = Issued(r, "upsert", DEFAULT_DRAFTS_TABLE)
             /\ totals.accounting_entries_upserted
                  = Issued(r, "upsert", DEFAULT_ACCOUNTING_TABLE)

\* a completed run over a sales message, the same message again and a receipt:
\* two drafts are counted and one Draft row is stored
C28_Witness ==
  /\ run[1].pc = "done" /\ run[1].poll.messages = <<mSales, mSales, mReceipt>>
  /\ run[1].result.totals.drafts_upserted = 2
  /\ run[1].result.totals.activities_upserted = 3
  /\ Len(db[DEFAULT_DRAFTS_TABLE]) = 1 /\ Len(db[DEFAULT_ACTIVITIES_TABLE]) = 2

\* C29: every notification attempt of a run comes right after the summary patch
\* of its draft, which succeeded, itself right after the upsert of that draft,
\* which succeeded; every summary patch that succeeded is followed by one
\* attempt; and between two messages and after the last the attempts are as many
\* as the sales messages the run has processed, one per occurrence, whether or
\* not the draft was stored, or notified, before.
C29_OneAttemptPerSalesMessage ==
  \A p \in Procs :
    LET r == run[p]
    IN  /\ \A k \in 1..Len(r.log) :
             r.log[k].op = "post" =>
               /\ k >= 3
               /\ r.log[k - 1] = Request("patch", DEFAULT_DRAFTS_TABLE, "ok")
               /\ r.log[k - 2] = Request("upsert", DEFAULT_DRAFTS_TABLE, "ok")
        /\ \A k \in 1..Len(r.log) :
             r.log[k] = Request("patch", DEFAULT_DRAFTS_TABLE, "ok") =>
               IF k = Len(r.log) THEN r.pc = "slack" ELSE r.log[k + 1].op = "post"
        /\ (r.pc = "message" \/ LoopLeft(r)) =>
             Issued(r, "post", "slack")
               = Cardinality(Carrying(r, r.i - 1, {"sales"}, FALSE))

\* a run over the batch of the run before it, the same sales message twice, has
\* completed: two attempts, each posted, for the one Draft row stored before
C29_Witness ==
  /\ run[1].pc = "done" /\ run[1].repeat
  /\ run[1].poll.messages = <<mSales, mSales>>
  /\ Issued(run[1], "post", "slack") = 2
  /\ \A k \in 1..2 : run[1].result.sales_drafts[k].slack_posted
  /\ run[1].countsAtStart.drafts = 1 /\ Len(db[DEFAULT_DRAFTS_TABLE]) = 1

\* the sales messages among the first n of a batch whose sender has no address
UnresolvedSales(r, n) ==
  Carrying(r, n, {"sales"}, FALSE) \ Carrying(r, n, {"sales"}, TRUE)

\* C30: between two messages and after the last, every sales message processed
\* whose sender has no address has its Activity stored, with no sender address and
\* no contact link, its Draft stored for that Activity, addressed to
\* unknown@example.com, and its notification attempted and reported for that
\* Draft and recipient; the Contact upserts of the run are those of the sales and
\* support messages that have a sender address, and no Contact is stored without
\* an address.
C30_SalesWithoutSender ==
  \A p \in Procs :
    LET r == run[p]
    IN  (r.pc = "message" \/ LoopLeft(r)) =>
          /\ \A j \in UnresolvedSales(r, r.i - 1) :
               \E a \in Range(db[DEFAULT_ACTIVITIES_TABLE]) :
                 /\ a.source_key = r.poll.messages[j].source_key
                 /\ a.from_email = "" /\ a.contact_id = 0
                 /\ \E d \in Range(db[DEFAULT_DRAFTS_TABLE]) :
                      /\ d.activity_id = a.id /\ d.to_email = "unknown@example.com"
                      /\ \E entry \in Range(r.result.sales_drafts) :
                           /\ entry.draft_id = d.id /\ entry.activity_id = a.id
                           /\ entry.to_email = "unknown@example.com"
          /\ Issued(r, "post", "slack") >= Cardinality(UnresolvedSales(r, r.i - 1))
          /\ Issued(r, "upsert", DEFAULT_CONTACTS_TABLE)
               = Cardinality(Carrying(r, r.i - 1, {"sales", "support"}, TRUE))
          /\ \A c \in Range(db[DEFAULT_CONTACTS_TABLE]) : c.email # ""

\* a completed run over the one sales message of a sender without an address:
\* Activity upsert, Draft upsert, summary patch and notification, and no Contact
C30_Witness ==
  /\ run[1].pc = "done" /\ run[1].poll.messages = <<mNoSender>>
  /\ Classification[mNoSender].label = "sales"
  /\ LoopCalls(run[1]) =
       << <<"upsert", DEFAULT_ACTIVITIES_TABLE>>, <<"upsert", DEFAULT_DRAFTS_TABLE>>,
          <<"patch", DEFAULT_DRAFTS_TABLE>>, <<"post", "slack">> >>
  /\ db[DEFAULT_CONTACTS_TABLE] = << >>
  /\ Len(db[DEFAULT_DRAFTS_TABLE]) = 1
  /\ db[DEFAULT_DRAFTS_TABLE][1].to_email = "unknown@example.com"

====
